---- MODULE Spec2Model ----
(***************************************************************************)
(* A model of formatrix-core: the Format Registry (traits.rs), the format  *)
(* adapters' parse folds and render walks (formats/*.rs) over the unified  *)
(* document AST (ast.rs).                                                  *)
(*                                                                         *)
(* Strings are sequences of tokens (one TLA+ string per pushed piece), so  *)
(* that concatenation, trimming and "contains" are computed, not assumed.  *)
(* Option<T> is a sequence of length 0 (None) or 1 (Some).                 *)
(***************************************************************************)
EXTENDS Integers, Sequences, FiniteSets, TLC

VARIABLES handlers, call, calls, result, src, doc, out

regVars == <<handlers, call, calls, result>>
docVars == <<src, doc, out>>
vars == <<handlers, call, calls, result, src, doc, out>>

(***************************************************************************)
(* Bounds of the model.                                                    *)
(***************************************************************************)
MaxTexts == 2
MaxLine == 2

None == <<>>
Some(x) == <<x>>
IsSome(o) == Len(o) = 1
Unwrap(o) == o[1]

(***************************************************************************)
(* ast.rs: SourceFormat                                                    *)
(***************************************************************************)
SourceFormat ==
    {"PlainText", "Markdown", "AsciiDoc", "Djot", "OrgMode", "ReStructuredText", "Typst"}

(***************************************************************************)
(* traits.rs: ConversionError and Result                                   *)
(***************************************************************************)
NoError == [kind |-> "none", format |-> "none", feature |-> "none", line |-> 0]
ParseError(l) == [kind |-> "ParseError", format |-> "none", feature |-> "none", line |-> l]
UnsupportedFeature(f, feat) ==
    [kind |-> "UnsupportedFeature", format |-> f, feature |-> feat, line |-> 0]
SerializationError == [kind |-> "SerializationError", format |-> "none", feature |-> "none", line |-> 0]

\* A text as the registry sees it: the caller's input, or what a handler rendered
\* from the document a handler parsed.
InputText(i) == [by |-> "caller", parsed |-> "none", id |-> i]
RenderedText(to, d) == [by |-> to, parsed |-> d.source_format, id |-> d.id]
NoText == [by |-> "none", parsed |-> "none", id |-> 0]
Texts == {InputText(i) : i \in 1..MaxTexts}

Ok(v) == [ok |-> TRUE, val |-> v, err |-> NoError]
Err(e) == [ok |-> FALSE, val |-> NoText, err |-> e]

\* What a registered handler's parse / render may answer (Result<Document>,
\* Result<String>): the registry holds trait objects, so either outcome is possible.
ParseOutcomes == {NoError} \cup {ParseError(l) : l \in 1..MaxLine}
RenderOutcomes == {NoError, SerializationError}

\* The arguments of the convert call in progress and what the handlers answer in it.
NoCall == [input |-> NoText, from |-> "none", to |-> "none", pOut |-> NoError, rOut |-> NoError]

(***************************************************************************)
(* traits.rs: FormatRegistry                                               *)
(***************************************************************************)
\* FormatRegistry::get
get(h, format) == IF format \in h THEN Some(format) ELSE None

\* Plausible bugs of convert, used to check that the claims depend on it.
convertNoFastPath(h, input, from, to, pOut, rOut) ==
    IF get(h, from) = None
    THEN [result |-> Err(UnsupportedFeature(from, "parsing")), calls |-> <<>>]
    ELSE IF get(h, to) = None
    THEN [result |-> Err(UnsupportedFeature(to, "rendering")), calls |-> <<>>]
    ELSE IF pOut # NoError
    THEN [result |-> Err(pOut), calls |-> << <<"parse", from>> >>]
    ELSE IF rOut # NoError
    THEN [result |-> Err(rOut), calls |-> << <<"parse", from>>, <<"render", to>> >>]
    ELSE [result |-> Ok(RenderedText(to, [source_format |-> from, id |-> input.id])),
          calls |-> << <<"parse", from>>, <<"render", to>> >>]

convertParseBeforeResolve(h, input, from, to, pOut, rOut) ==
    IF from = to
    THEN [result |-> Ok(input), calls |-> <<>>]
    ELSE IF get(h, from) = None
    THEN [result |-> Err(UnsupportedFeature(from, "parsing")), calls |-> <<>>]
    ELSE IF pOut # NoError
    THEN [result |-> Err(pOut), calls |-> << <<"parse", from>> >>]
    ELSE IF get(h, to) = None
    THEN [result |-> Err(UnsupportedFeature(to, "rendering")), calls |-> << <<"parse", from>> >>]
    ELSE IF rOut # NoError
    THEN [result |-> Err(rOut), calls |-> << <<"parse", from>>, <<"render", to>> >>]
    ELSE [result |-> Ok(RenderedText(to, [source_format |-> from, id |-> input.id])),
          calls |-> << <<"parse", from>>, <<"render", to>> >>]

\* FormatRegistry::convert: the result and the handler invocations it made.
\* pOut / rOut are what the handlers' parse and render answer when invoked.
convert(h, input, from, to, pOut, rOut) ==
    IF from = to
    THEN [result |-> Ok(input), calls |-> <<>>]
    ELSE IF get(h, from) = None
    THEN [result |-> Err(UnsupportedFeature(from, "parsing")), calls |-> <<>>]
    ELSE IF get(h, to) = None
    THEN [result |-> Err(UnsupportedFeature(to, "rendering")), calls |-> <<>>]
    ELSE IF pOut # NoError
    THEN [result |-> Err(pOut), calls |-> << <<"parse", from>> >>]
    ELSE IF rOut # NoError
    THEN [result |-> Err(rOut), calls |-> << <<"parse", from>>, <<"render", to>> >>]
    ELSE [result |-> Ok(RenderedText(to, [source_format |-> from, id |-> input.id])),
          calls |-> << <<"parse", from>>, <<"render", to>> >>]

(***************************************************************************)
(* Strings and numbers                                                     *)
(***************************************************************************)
\* The concatenation of a sequence of sequences.
RECURSIVE Flatten(_)
Flatten(ss) == IF ss = <<>> THEN <<>> ELSE Head(ss) \o Flatten(Tail(ss))

\* str::repeat
Repeat(tok, n) == [i \in 1..n |-> tok]

\* str::lines: the lines of a string, split at "\n"; a final "\n" ends the last
\* line and starts no empty one.
RECURSIVE LinesFrom(_, _)
LinesFrom(s, cur) ==
    IF s = <<>> THEN (IF cur = <<>> THEN <<>> ELSE <<cur>>)
    ELSE IF Head(s) = "\n" THEN <<cur>> \o LinesFrom(Tail(s), <<>>)
    ELSE LinesFrom(Tail(s), Append(cur, Head(s)))
Lines(s) == LinesFrom(s, <<>>)

\* str::ends_with('\n')
EndsWithNewline(s) == s # <<>> /\ s[Len(s)] = "\n"

\* The backquote character and the code fence of three, which the module's
\* lexer does not accept inside a string.
Backtick == "BACKQUOTE"
Fence == "BACKQUOTE-BACKQUOTE-BACKQUOTE"

Digits == <<"0", "1", "2", "3", "4", "5", "6", "7", "8", "9">>

\* format!("{}", n) for a usize n
RECURSIVE DecimalUsize(_)
DecimalUsize(n) ==
    IF n < 10 THEN <<Digits[n + 1]>>
    ELSE DecimalUsize(n \div 10) \o <<Digits[(n % 10) + 1]>>

\* A u32 is kept at its width as a pair <<hi, lo>> of 16-bit halves, value
\* hi * 2^16 + lo (the model checker's integers are 32-bit signed).
U16 == 65536
U32(n) == <<n \div U16, n % U16>>
U32Max == <<U16 - 1, U16 - 1>>
\* a + i in unbounded arithmetic, as <<hi, lo>> with hi possibly >= 2^16
WideAdd(a, i) == <<a[1] + ((a[2] + i) \div U16), (a[2] + i) % U16>>
\* u32 + u32: whether it overflows, and the wrapped sum
AddOverflows(a, i) == WideAdd(a, i)[1] >= U16
WrappingAdd(a, i) == <<WideAdd(a, i)[1] % U16, WideAdd(a, i)[2]>>

\* format!("{}", n) for a u32 n (or a wider <<hi, lo>>): long division by ten
RECURSIVE DecimalU32(_)
DecimalU32(n) ==
    LET qhi == n[1] \div 10
        rest == (n[1] % 10) * U16 + n[2]
        q == <<qhi + ((rest \div 10) \div U16), (rest \div 10) % U16>>
        d == rest % 10
    IN IF n[1] = 0 /\ n[2] < 10 THEN <<Digits[n[2] + 1]>>
       ELSE DecimalU32(q) \o <<Digits[d + 1]>>

(***************************************************************************)
(* ast.rs: the unified document model.  Every Inline and every Block is a  *)
(* record with the fields of all variants, t naming the variant; a field   *)
(* the variant lacks holds its default.  Vec<Inline> fields are content,   *)
(* Vec<Block> fields are blocks, String contents are text.                 *)
(***************************************************************************)
AdmonitionType == {"Note", "Tip", "Important", "Warning", "Caution", "Danger", "Custom"}
ListKind == {"Bullet", "Ordered", "Task"}
MathNotation == {"LaTeX", "AsciiMath", "MathML"}

Inl(t) ==
    [t |-> t, text |-> <<>>, content |-> <<>>, url |-> <<>>, title |-> None,
     notation |-> "none"]
Text(s) == [Inl("Text") EXCEPT !.text = s]
Emphasis(c) == [Inl("Emphasis") EXCEPT !.content = c]
Strong(c) == [Inl("Strong") EXCEPT !.content = c]
Strikethrough(c) == [Inl("Strikethrough") EXCEPT !.content = c]
Underline(c) == [Inl("Underline") EXCEPT !.content = c]
Superscript(c) == [Inl("Superscript") EXCEPT !.content = c]
Subscript(c) == [Inl("Subscript") EXCEPT !.content = c]
SmallCaps(c) == [Inl("SmallCaps") EXCEPT !.content = c]
Code(s) == [Inl("Code") EXCEPT !.text = s]
Math(s, n) == [Inl("Math") EXCEPT !.text = s, !.notation = n]
Link(url, title, c) == [Inl("Link") EXCEPT !.url = url, !.title = title, !.content = c]
Image(url, alt, title) == [Inl("Image") EXCEPT !.url = url, !.text = alt, !.title = title]
FootnoteRef(label) == [Inl("FootnoteRef") EXCEPT !.text = label]
Citation(prefix) == [Inl("Citation") EXCEPT !.content = prefix]
LineBreak == Inl("LineBreak")
SoftBreak == Inl("SoftBreak")
NonBreakingSpace == Inl("NonBreakingSpace")
Span(c) == [Inl("Span") EXCEPT !.content = c]
RawInline(s) == [Inl("RawInline") EXCEPT !.text = s]
Quoted(c) == [Inl("Quoted") EXCEPT !.content = c]
Keyboard(s) == [Inl("Keyboard") EXCEPT !.text = s]
Highlight(c) == [Inl("Highlight") EXCEPT !.content = c]

Blk(t) ==
    [t |-> t, level |-> 0, content |-> <<>>, blocks |-> <<>>, items |-> <<>>,
     kind |-> "none", start |-> None, admonition |-> None, text |-> <<>>,
     language |-> None, header |-> None, body |-> <<>>, id |-> None, caption |-> None]
Paragraph(c) == [Blk("Paragraph") EXCEPT !.content = c]
Heading(level, c) == [Blk("Heading") EXCEPT !.level = level, !.content = c]
CodeBlock(language, s) == [Blk("CodeBlock") EXCEPT !.language = language, !.text = s]
BlockQuote(bs, admonition) ==
    [Blk("BlockQuote") EXCEPT !.blocks = bs, !.admonition = admonition]
List(kind, items, start) ==
    [Blk("List") EXCEPT !.kind = kind, !.items = items, !.start = start]
DefinitionList(items) == [Blk("DefinitionList") EXCEPT !.items = items]
Table(header, body, caption) ==
    [Blk("Table") EXCEPT !.header = header, !.body = body, !.caption = caption]
ThematicBreak == Blk("ThematicBreak")
MathBlock(s) == [Blk("MathBlock") EXCEPT !.text = s]
Container(bs) == [Blk("Container") EXCEPT !.blocks = bs]
Figure(bs, caption) == [Blk("Figure") EXCEPT !.blocks = bs, !.caption = caption]
Raw(s) == [Blk("Raw") EXCEPT !.text = s]
FootnoteDefinition(label, bs) ==
    [Blk("FootnoteDefinition") EXCEPT !.text = label, !.blocks = bs]
TableOfContents == Blk("TableOfContents")

ListItem(bs, checked) == [content |-> bs, checked |-> checked]
TableCell(bs) == [content |-> bs]
TableRow(cells) == [cells |-> cells]

Document(format, content) == [source_format |-> format, content |-> content]

\* Option<bool>::unwrap_or(false)
UnwrapOrFalse(o) == IF IsSome(o) THEN Unwrap(o) ELSE FALSE

(***************************************************************************)
(* ast.rs: word_count and char_count.  A string is a sequence of pieces,   *)
(* each a white-space character or a run of other characters.              *)
(***************************************************************************)
Whitespace == {" ", "\n"}

\* Iterator::sum
RECURSIVE Sum(_)
Sum(ns) == IF ns = <<>> THEN 0 ELSE Head(ns) + Sum(Tail(ns))

\* A tokenizer that splits at every single space: str::split(' ').count()
split_space_count(s) == 1 + Len(SelectSeq(s, LAMBDA p : p = " "))

\* str::split_whitespace().count(): the runs of pieces that are not white space
split_whitespace_count(s) ==
    Cardinality({i \in 1..Len(s) :
                   /\ s[i] \notin Whitespace
                   /\ (i = 1 \/ s[i - 1] \in Whitespace)})

\* str::chars().count()
RECURSIVE chars_count(_)
chars_count(s) == IF s = <<>> THEN 0 ELSE Len(Head(s)) + chars_count(Tail(s))

\* Inline::word_count
RECURSIVE Inline_word_count(_)
Inline_word_count(x) ==
    CASE x.t = "Text" -> split_whitespace_count(x.text)
      [] x.t \in {"Emphasis", "Strong", "Strikethrough", "Underline", "Highlight"} ->
            Sum([i \in 1..Len(x.content) |-> Inline_word_count(x.content[i])])
      [] x.t = "Code" -> split_whitespace_count(x.text)
      [] OTHER -> 0

\* Inline::char_count
RECURSIVE Inline_char_count(_)
Inline_char_count(x) ==
    CASE x.t = "Text" -> chars_count(x.text)
      [] x.t \in {"Emphasis", "Strong", "Strikethrough", "Underline", "Highlight"} ->
            Sum([i \in 1..Len(x.content) |-> Inline_char_count(x.content[i])])
      [] x.t = "Code" -> chars_count(x.text)
      [] OTHER -> 0

\* items.iter().flat_map(|i| &i.content)
ItemBlocks(items) == Flatten([i \in 1..Len(items) |-> items[i].content])

\* Block::word_count
RECURSIVE Block_word_count(_)
Block_word_count(b) ==
    CASE b.t \in {"Paragraph", "Heading"} ->
            Sum([i \in 1..Len(b.content) |-> Inline_word_count(b.content[i])])
      [] b.t = "CodeBlock" -> split_whitespace_count(b.text)
      [] b.t \in {"BlockQuote", "Container"} ->
            Sum([i \in 1..Len(b.blocks) |-> Block_word_count(b.blocks[i])])
      [] b.t = "List" ->
            LET bs == ItemBlocks(b.items) IN
            Sum([i \in 1..Len(bs) |-> Block_word_count(bs[i])])
      [] b.t = "Figure" ->
            LET content_count == Sum([i \in 1..Len(b.blocks) |->
                                           Block_word_count(b.blocks[i])])
                caption_count ==
                    IF IsSome(b.caption)
                    THEN Sum([i \in 1..Len(Unwrap(b.caption)) |->
                                  Inline_word_count(Unwrap(b.caption)[i])])
                    ELSE 0
            IN content_count + caption_count
      [] OTHER -> 0

\* Block::char_count
RECURSIVE Block_char_count(_)
Block_char_count(b) ==
    CASE b.t \in {"Paragraph", "Heading"} ->
            Sum([i \in 1..Len(b.content) |-> Inline_char_count(b.content[i])])
      [] b.t = "CodeBlock" -> chars_count(b.text)
      [] b.t \in {"BlockQuote", "Container"} ->
            Sum([i \in 1..Len(b.blocks) |-> Block_char_count(b.blocks[i])])
      [] b.t = "List" ->
            LET bs == ItemBlocks(b.items) IN
            Sum([i \in 1..Len(bs) |-> Block_char_count(bs[i])])
      [] OTHER -> 0

\* Document::word_count
Document_word_count(d) ==
    Sum([i \in 1..Len(d.content) |-> Block_word_count(d.content[i])])

\* Document::char_count
Document_char_count(d) ==
    Sum([i \in 1..Len(d.content) |-> Block_char_count(d.content[i])])

(***************************************************************************)
(* formats/markdown.rs: the Markdown renderer                              *)
(***************************************************************************)
RECURSIVE MdInline(_)
MdInlines(c) == Flatten([i \in 1..Len(c) |-> MdInline(c[i])])
MdTitle(title) == IF IsSome(title) THEN <<" \"">> \o Unwrap(title) \o <<"\"">> ELSE <<>>
\* render_inline
MdInline(x) ==
    CASE x.t = "Text" -> x.text
      [] x.t = "Emphasis" -> <<"*">> \o MdInlines(x.content) \o <<"*">>
      [] x.t = "Strong" -> <<"**">> \o MdInlines(x.content) \o <<"**">>
      [] x.t = "Strikethrough" -> <<"~~">> \o MdInlines(x.content) \o <<"~~">>
      [] x.t = "Code" -> <<Backtick>> \o x.text \o <<Backtick>>
      [] x.t = "Link" ->
            <<"[">> \o MdInlines(x.content) \o <<"](">> \o x.url \o MdTitle(x.title) \o <<")">>
      [] x.t = "Image" ->
            <<"![">> \o x.text \o <<"](">> \o x.url \o MdTitle(x.title) \o <<")">>
      [] x.t = "FootnoteRef" -> <<"[^">> \o x.text \o <<"]">>
      [] x.t = "LineBreak" -> <<"  \n">>
      [] x.t = "SoftBreak" -> <<"\n">>
      [] x.t = "RawInline" -> x.text
      [] OTHER -> <<>>

\* The label of item i (0-based) of an ordered list: format!("{}. ", i + 1)
MdOrderedLabel(start, i) == DecimalUsize(i + 1) \o <<". ">>

\* A renderer that marks a block quote with its admonition kind ("> [!NOTE]").
MdQuoteMarkAdmonition(admonition) ==
    IF IsSome(admonition) THEN <<"> ", "[!", Unwrap(admonition), "]", "\n">> ELSE <<>>
\* What render_block emits for the admonition of a BlockQuote: nothing
\* (the pattern Block::BlockQuote { content, .. } does not bind it).
MdQuoteMark(admonition) == <<>>

RECURSIVE MdBlock(_, _)
MdBlocks(bs, indent) == Flatten([i \in 1..Len(bs) |-> MdBlock(bs[i], indent)])
MdRow(prefix, row) ==
    prefix \o <<"|">>
    \o Flatten([c \in 1..Len(row.cells) |->
                   <<" ">> \o MdBlocks(row.cells[c].content, 0) \o <<" |">>])
    \o <<"\n">>
\* render_block
MdBlock(b, indent) ==
    LET prefix == Repeat("  ", indent) IN
    CASE b.t = "Paragraph" -> prefix \o MdInlines(b.content)
      [] b.t = "Heading" ->
            prefix \o Repeat("#", b.level) \o <<" ">> \o MdInlines(b.content)
      [] b.t = "CodeBlock" ->
            prefix \o <<Fence>> \o (IF IsSome(b.language) THEN Unwrap(b.language) ELSE <<>>)
            \o <<"\n">>
            \o Flatten([l \in 1..Len(Lines(b.text)) |-> prefix \o Lines(b.text)[l] \o <<"\n">>])
            \o prefix \o <<Fence>>
      [] b.t = "BlockQuote" ->
            MdQuoteMark(b.admonition)
            \o Flatten([i \in 1..Len(b.blocks) |->
                          prefix \o <<"> ">> \o MdBlock(b.blocks[i], 0) \o <<"\n">>])
      [] b.t = "List" ->
            Flatten([i \in 1..Len(b.items) |->
                prefix
                \o (CASE b.kind = "Bullet" -> <<"- ">>
                      [] b.kind = "Ordered" -> MdOrderedLabel(b.start, i - 1)
                      [] b.kind = "Task" ->
                            IF UnwrapOrFalse(b.items[i].checked)
                            THEN <<"- [x] ">> ELSE <<"- [ ] ">>)
                \o MdBlocks(b.items[i].content, 0)
                \o <<"\n">>])
      [] b.t = "ThematicBreak" -> prefix \o <<"---">>
      [] b.t = "Table" ->
            (IF IsSome(b.header)
             THEN MdRow(prefix, Unwrap(b.header))
                  \o prefix \o <<"|">>
                  \o Flatten([c \in 1..Len(Unwrap(b.header).cells) |-> <<" --- |">>])
                  \o <<"\n">>
             ELSE <<>>)
            \o Flatten([r \in 1..Len(b.body) |-> MdRow(prefix, b.body[r])])
      [] b.t = "Raw" -> b.text
      [] b.t = "FootnoteDefinition" ->
            prefix \o <<"[^">> \o b.text \o <<"]: ">> \o MdBlocks(b.blocks, indent + 1)
      [] OTHER -> <<>>

\* The blocks of a document joined by "\n\n" (the render loop of every handler)
JoinBlocks(rendered) ==
    Flatten([i \in 1..Len(rendered) |->
               (IF i > 1 THEN <<"\n", "\n">> ELSE <<>>) \o rendered[i]])

\* MarkdownHandler::render
MarkdownRender(d) == JoinBlocks([i \in 1..Len(d.content) |-> MdBlock(d.content[i], 0)])

(***************************************************************************)
(* formats/plaintext.rs: the plain text renderer                           *)
(***************************************************************************)
RECURSIVE TxtInline(_)
TxtInlines(c) == Flatten([i \in 1..Len(c) |-> TxtInline(c[i])])
\* render_inline
TxtInline(x) ==
    CASE x.t = "Text" -> x.text
      [] x.t = "Emphasis" -> TxtInlines(x.content)
      [] x.t = "Strong" -> TxtInlines(x.content)
      [] x.t = "Code" -> x.text
      [] x.t = "Link" -> TxtInlines(x.content)
      [] x.t = "LineBreak" -> <<"\n">>
      [] x.t = "SoftBreak" -> <<" ">>
      [] OTHER -> <<>>

RECURSIVE TxtBlock(_)
TxtBlocks(bs) == Flatten([i \in 1..Len(bs) |-> TxtBlock(bs[i])])
\* render_block
TxtBlock(b) ==
    CASE b.t = "Paragraph" -> TxtInlines(b.content)
      [] b.t = "Heading" -> TxtInlines(b.content)
      [] b.t = "CodeBlock" -> b.text
      [] b.t = "BlockQuote" -> TxtBlocks(b.blocks)
      [] b.t = "List" -> Flatten([i \in 1..Len(b.items) |-> TxtBlocks(b.items[i].content)])
      [] b.t = "Raw" -> b.text
      [] OTHER -> <<>>

\* A renderer that puts one line break between the blocks.
PlainTextRenderOneBreak(d) ==
    Flatten([i \in 1..Len(d.content) |->
               (IF i > 1 THEN <<"\n">> ELSE <<>>) \o TxtBlock(d.content[i])])

\* PlainTextHandler::render
PlainTextRender(d) == JoinBlocks([i \in 1..Len(d.content) |-> TxtBlock(d.content[i])])

(***************************************************************************)
(* Ordered list labels computed in u32 (Djot, Org-mode):                   *)
(*     let num = start.unwrap_or(1) + i as u32;                            *)
(* The sum overflows when start + i > u32::MAX: a build with overflow      *)
(* checks (debug) panics there, a build without them (release) wraps.      *)
(***************************************************************************)
Builds == {"debug", "release"}
Panic == "PANIC: attempt to add with overflow"

U32Label(start, i, build) ==
    LET s == IF IsSome(start) THEN Unwrap(start) ELSE U32(1) IN
    IF AddOverflows(s, i) /\ build = "debug"
    THEN <<Panic>>
    ELSE DecimalU32(WrappingAdd(s, i)) \o <<". ">>

(***************************************************************************)
(* formats/djot.rs: the Djot renderer                                      *)
(***************************************************************************)
RECURSIVE DjInline(_)
DjInlines(c) == Flatten([i \in 1..Len(c) |-> DjInline(c[i])])
\* render_inline
DjInline(x) ==
    CASE x.t = "Text" -> x.text
      [] x.t = "Emphasis" -> <<"_">> \o DjInlines(x.content) \o <<"_">>
      [] x.t = "Strong" -> <<"*">> \o DjInlines(x.content) \o <<"*">>
      [] x.t = "Strikethrough" -> <<"{-">> \o DjInlines(x.content) \o <<"-}">>
      [] x.t = "Code" -> <<Backtick>> \o x.text \o <<Backtick>>
      [] x.t = "Link" ->
            <<"[">> \o DjInlines(x.content) \o <<"](">> \o x.url \o MdTitle(x.title) \o <<")">>
      [] x.t = "Image" ->
            <<"![">> \o x.text \o <<"](">> \o x.url \o MdTitle(x.title) \o <<")">>
      [] x.t = "FootnoteRef" -> <<"[^">> \o x.text \o <<"]">>
      [] x.t = "LineBreak" -> <<"\\\n">>
      [] x.t = "SoftBreak" -> <<"\n">>
      [] x.t = "RawInline" -> <<Backtick>> \o x.text \o <<Backtick>>
      [] OTHER -> <<>>

\* The class name the renderer writes after ":::" for an admonition
DjAdmonitionName(admon) ==
    CASE admon = "Note" -> "note"
      [] admon = "Tip" -> "tip"
      [] admon = "Warning" -> "warning"
      [] admon = "Caution" -> "caution"
      [] admon = "Important" -> "important"
      [] admon = "Danger" -> "danger"
      [] admon = "Custom" -> "note"

DjOrderedLabel(start, i, build) == U32Label(start, i, build)

RECURSIVE DjBlock(_, _, _)
DjBlocks(bs, indent, build) == Flatten([i \in 1..Len(bs) |-> DjBlock(bs[i], indent, build)])
DjRow(prefix, row, build) ==
    prefix \o <<"|">>
    \o Flatten([c \in 1..Len(row.cells) |->
                   <<" ">> \o DjBlocks(row.cells[c].content, 0, build) \o <<" |">>])
    \o <<"\n">>
\* render_block
DjBlock(b, indent, build) ==
    LET prefix == Repeat(" ", indent) IN
    CASE b.t = "Paragraph" -> prefix \o DjInlines(b.content)
      [] b.t = "Heading" ->
            prefix \o Repeat("#", b.level) \o <<" ">> \o DjInlines(b.content)
            \o (IF IsSome(b.id) THEN <<" {#">> \o Unwrap(b.id) \o <<"}">> ELSE <<>>)
      [] b.t = "CodeBlock" ->
            prefix \o <<Fence>> \o (IF IsSome(b.language) THEN Unwrap(b.language) ELSE <<>>)
            \o <<"\n">>
            \o Flatten([l \in 1..Len(Lines(b.text)) |-> prefix \o Lines(b.text)[l] \o <<"\n">>])
            \o prefix \o <<Fence>>
      [] b.t = "BlockQuote" ->
            IF IsSome(b.admonition)
            THEN prefix \o <<"::: ", DjAdmonitionName(Unwrap(b.admonition)), "\n">>
                 \o Flatten([i \in 1..Len(b.blocks) |->
                               DjBlock(b.blocks[i], indent, build) \o <<"\n">>])
                 \o prefix \o <<":::">>
            ELSE Flatten([i \in 1..Len(b.blocks) |->
                            prefix \o <<"> ">> \o DjBlock(b.blocks[i], 0, build) \o <<"\n">>])
      [] b.t = "List" ->
            Flatten([i \in 1..Len(b.items) |->
                prefix
                \o (CASE b.kind = "Bullet" -> <<"- ">>
                      [] b.kind = "Ordered" -> DjOrderedLabel(b.start, i - 1, build)
                      [] b.kind = "Task" ->
                            IF UnwrapOrFalse(b.items[i].checked)
                            THEN <<"- [x] ">> ELSE <<"- [ ] ">>)
                \o DjBlocks(b.items[i].content, 0, build)
                \o <<"\n">>])
      [] b.t = "ThematicBreak" -> prefix \o <<"***">>
      [] b.t = "Table" ->
            (IF IsSome(b.header)
             THEN DjRow(prefix, Unwrap(b.header), build)
                  \o prefix \o <<"|">>
                  \o Flatten([c \in 1..Len(Unwrap(b.header).cells) |-> <<" --- |">>])
                  \o <<"\n">>
             ELSE <<>>)
            \o Flatten([r \in 1..Len(b.body) |-> DjRow(prefix, b.body[r], build)])
      [] b.t = "FootnoteDefinition" ->
            prefix \o <<"[^">> \o b.text \o <<"]: ">> \o DjBlocks(b.blocks, indent + 2, build)
      [] b.t = "Raw" -> prefix \o <<Fence, "\n">> \o b.text \o <<"\n", Fence>>
      [] OTHER -> <<>>

\* DjotHandler::render
DjotRender(d, build) ==
    JoinBlocks([i \in 1..Len(d.content) |-> DjBlock(d.content[i], 0, build)])

(***************************************************************************)
(* formats/orgmode.rs: the Org-mode renderer                               *)
(***************************************************************************)
RECURSIVE OrgInline(_)
OrgInlines(c) == Flatten([i \in 1..Len(c) |-> OrgInline(c[i])])
\* render_inline
OrgInline(x) ==
    CASE x.t = "Text" -> x.text
      [] x.t = "Emphasis" -> <<"/">> \o OrgInlines(x.content) \o <<"/">>
      [] x.t = "Strong" -> <<"*">> \o OrgInlines(x.content) \o <<"*">>
      [] x.t = "Strikethrough" -> <<"+">> \o OrgInlines(x.content) \o <<"+">>
      [] x.t = "Code" -> <<"~">> \o x.text \o <<"~">>
      [] x.t = "Link" -> <<"[[">> \o x.url \o <<"][">> \o OrgInlines(x.content) \o <<"]]">>
      [] x.t = "Image" -> <<"[[">> \o x.url \o <<"]]">>
      [] x.t = "FootnoteRef" -> <<"[fn:">> \o x.text \o <<"]">>
      [] x.t = "LineBreak" -> <<"\\\\\n">>
      [] x.t = "SoftBreak" -> <<"\n">>
      [] x.t = "RawInline" -> x.text
      [] OTHER -> <<>>

OrgOrderedLabel(start, i, build) == U32Label(start, i, build)

RECURSIVE OrgBlock(_, _)
OrgBlocks(bs, build) == Flatten([i \in 1..Len(bs) |-> OrgBlock(bs[i], build)])
OrgRow(row, build) ==
    <<"|">>
    \o Flatten([c \in 1..Len(row.cells) |->
                   <<" ">> \o OrgBlocks(row.cells[c].content, build) \o <<" |">>])
    \o <<"\n">>
\* render_block
OrgBlock(b, build) ==
    CASE b.t = "Paragraph" -> OrgInlines(b.content)
      [] b.t = "Heading" -> Repeat("*", b.level) \o <<" ">> \o OrgInlines(b.content)
      [] b.t = "CodeBlock" ->
            <<"#+BEGIN_SRC">>
            \o (IF IsSome(b.language) THEN <<" ">> \o Unwrap(b.language) ELSE <<>>)
            \o <<"\n">> \o b.text
            \o (IF ~EndsWithNewline(b.text) THEN <<"\n">> ELSE <<>>)
            \o <<"#+END_SRC">>
      [] b.t = "BlockQuote" ->
            <<"#+BEGIN_QUOTE\n">>
            \o Flatten([i \in 1..Len(b.blocks) |-> OrgBlock(b.blocks[i], build) \o <<"\n">>])
            \o <<"#+END_QUOTE">>
      [] b.t = "List" ->
            Flatten([i \in 1..Len(b.items) |->
                (CASE b.kind = "Bullet" -> <<"- ">>
                   [] b.kind = "Ordered" -> OrgOrderedLabel(b.start, i - 1, build)
                   [] b.kind = "Task" ->
                         IF UnwrapOrFalse(b.items[i].checked)
                         THEN <<"- [X] ">> ELSE <<"- [ ] ">>)
                \o OrgBlocks(b.items[i].content, build)
                \o <<"\n">>])
      [] b.t = "ThematicBreak" -> <<"-----">>
      [] b.t = "Table" ->
            (IF IsSome(b.header)
             THEN OrgRow(Unwrap(b.header), build) \o <<"|---|\n">>
             ELSE <<>>)
            \o Flatten([r \in 1..Len(b.body) |-> OrgRow(b.body[r], build)])
      [] b.t = "FootnoteDefinition" ->
            <<"[fn:">> \o b.text \o <<"] ">> \o OrgBlocks(b.blocks, build)
      [] b.t = "Raw" -> <<"#+BEGIN_EXPORT\n">> \o b.text \o <<"\n#+END_EXPORT">>
      [] OTHER -> <<>>

\* OrgModeHandler::render
OrgModeRender(d, build) ==
    JoinBlocks([i \in 1..Len(d.content) |-> OrgBlock(d.content[i], build)])

(***************************************************************************)
(* formats/rst.rs: the reStructuredText renderer                           *)
(***************************************************************************)
\* str::len of a string kept as a sequence of pieces: the sum of their lengths
RECURSIVE StrLen(_)
StrLen(s) == IF s = <<>> THEN 0 ELSE Len(Head(s)) + StrLen(Tail(s))

Max(a, b) == IF a >= b THEN a ELSE b

RECURSIVE RstInline(_)
RstInlines(c) == Flatten([i \in 1..Len(c) |-> RstInline(c[i])])
\* render_inline
RstInline(x) ==
    CASE x.t = "Text" -> x.text
      [] x.t = "Emphasis" -> <<"*">> \o RstInlines(x.content) \o <<"*">>
      [] x.t = "Strong" -> <<"**">> \o RstInlines(x.content) \o <<"**">>
      [] x.t = "Code" -> <<Backtick, Backtick>> \o x.text \o <<Backtick, Backtick>>
      [] x.t = "Link" ->
            <<Backtick>> \o RstInlines(x.content) \o <<" <">> \o x.url
            \o <<">", Backtick, "_">>
      [] x.t = "Image" -> <<".. image:: ">> \o x.url \o <<"\n   :alt: ">> \o x.text
      [] x.t = "Math" -> <<":math:", Backtick>> \o x.text \o <<Backtick>>
      [] x.t = "Superscript" -> <<":sup:", Backtick>> \o RstInlines(x.content) \o <<Backtick>>
      [] x.t = "Subscript" -> <<":sub:", Backtick>> \o RstInlines(x.content) \o <<Backtick>>
      [] x.t = "LineBreak" -> <<"\n">>
      [] x.t = "SoftBreak" -> <<" ">>
      [] OTHER -> <<>>

RECURSIVE inline_text_len(_)
inline_text_len(x) ==
    CASE x.t = "Text" -> StrLen(x.text)
      [] x.t \in {"Emphasis", "Strong"} ->
            Sum([i \in 1..Len(x.content) |-> inline_text_len(x.content[i])])
      [] x.t = "Code" -> StrLen(x.text)
      [] OTHER -> 0

\* The underline character of a heading level
RstUnderline(level) ==
    CASE level = 1 -> "="
      [] level = 2 -> "-"
      [] level = 3 -> "~"
      [] level = 4 -> "^"
      [] OTHER -> "'"

RstDirective(admon) ==
    CASE admon = "Note" -> "note"
      [] admon = "Tip" -> "tip"
      [] admon = "Warning" -> "warning"
      [] admon = "Caution" -> "caution"
      [] admon = "Important" -> "important"
      [] admon = "Danger" -> "danger"
      [] admon = "Custom" -> "admonition"

\* The label of item i (0-based) of an ordered list: format!("{}. ", i + 1)
RstOrderedLabel(start, i) == DecimalUsize(i + 1) \o <<". ">>

RECURSIVE RstBlock(_)
\* render_block (its depth argument is unused)
RstBlock(b) ==
    CASE b.t = "Paragraph" -> RstInlines(b.content)
      [] b.t = "Heading" ->
            RstInlines(b.content) \o <<"\n">>
            \o Repeat(RstUnderline(b.level),
                      Max(Sum([i \in 1..Len(b.content) |-> inline_text_len(b.content[i])]), 1))
      [] b.t = "CodeBlock" ->
            (IF IsSome(b.language)
             THEN <<".. code-block:: ">> \o Unwrap(b.language) \o <<"\n\n">>
             ELSE <<"::\n\n">>)
            \o Flatten([l \in 1..Len(Lines(b.text)) |-> <<"   ">> \o Lines(b.text)[l] \o <<"\n">>])
      [] b.t = "BlockQuote" ->
            (IF IsSome(b.admonition)
             THEN <<".. ", RstDirective(Unwrap(b.admonition)), "::\n\n">>
             ELSE <<>>)
            \o Flatten([i \in 1..Len(b.blocks) |->
                          <<"   ">> \o RstBlock(b.blocks[i]) \o <<"\n">>])
      [] b.t = "List" ->
            Flatten([i \in 1..Len(b.items) |->
                (CASE b.kind = "Bullet" -> <<"* ">>
                   [] b.kind = "Ordered" -> RstOrderedLabel(b.start, i - 1)
                   [] b.kind = "Task" ->
                         IF UnwrapOrFalse(b.items[i].checked) THEN <<"[x] ">> ELSE <<"[ ] ">>)
                \o Flatten([j \in 1..Len(b.items[i].content) |->
                              (IF j > 1 THEN <<"\n   ">> ELSE <<>>)
                              \o RstBlock(b.items[i].content[j])])
                \o <<"\n">>])
      [] b.t = "ThematicBreak" -> <<"----">>
      [] b.t = "MathBlock" ->
            <<".. math::\n\n">>
            \o Flatten([l \in 1..Len(Lines(b.text)) |-> <<"   ">> \o Lines(b.text)[l] \o <<"\n">>])
      [] OTHER -> <<>>

\* RstHandler::render
RstRender(d) == JoinBlocks([i \in 1..Len(d.content) |-> RstBlock(d.content[i])])

(***************************************************************************)
(* formats/typst.rs: the Typst renderer                                    *)
(***************************************************************************)
RECURSIVE TypInline(_)
TypInlines(c) == Flatten([i \in 1..Len(c) |-> TypInline(c[i])])
\* render_inline
TypInline(x) ==
    CASE x.t = "Text" -> x.text
      [] x.t = "Emphasis" -> <<"_">> \o TypInlines(x.content) \o <<"_">>
      [] x.t = "Strong" -> <<"*">> \o TypInlines(x.content) \o <<"*">>
      [] x.t = "Strikethrough" -> <<"#strike[">> \o TypInlines(x.content) \o <<"]">>
      [] x.t = "Code" -> <<Backtick>> \o x.text \o <<Backtick>>
      [] x.t = "Link" ->
            <<"#link(\"">> \o x.url \o <<"\")[">> \o TypInlines(x.content) \o <<"]">>
      [] x.t = "Image" ->
            <<"#image(\"">> \o x.url \o <<"\", alt: \"">> \o x.text \o <<"\")">>
      [] x.t = "Math" ->
            IF x.notation \in {"LaTeX", "AsciiMath"}
            THEN <<"$">> \o x.text \o <<"$">>
            ELSE <<"#raw[">> \o x.text \o <<"]">>
      [] x.t = "LineBreak" -> <<"\\ \n">>
      [] x.t = "SoftBreak" -> <<" ">>
      [] OTHER -> <<>>

\* The label of item i (0-based) of an ordered list: format!("{}. ", i + 1)
TypOrderedLabel(start, i) == DecimalUsize(i + 1) \o <<". ">>

RECURSIVE TypBlock(_)
TypBlocks(bs) == Flatten([i \in 1..Len(bs) |-> TypBlock(bs[i])])
\* render_block
TypBlock(b) ==
    CASE b.t = "Paragraph" -> TypInlines(b.content)
      [] b.t = "Heading" -> Repeat("=", b.level) \o <<" ">> \o TypInlines(b.content)
      [] b.t = "CodeBlock" ->
            <<Fence>> \o (IF IsSome(b.language) THEN Unwrap(b.language) ELSE <<>>)
            \o <<"\n">> \o b.text
            \o (IF ~EndsWithNewline(b.text) THEN <<"\n">> ELSE <<>>)
            \o <<Fence>>
      [] b.t = "BlockQuote" ->
            <<"#quote[\n">>
            \o Flatten([i \in 1..Len(b.blocks) |->
                          <<"  ">> \o TypBlock(b.blocks[i]) \o <<"\n">>])
            \o <<"]">>
      [] b.t = "List" ->
            Flatten([i \in 1..Len(b.items) |->
                (CASE b.kind = "Bullet" -> <<"- ">>
                   [] b.kind = "Ordered" -> TypOrderedLabel(b.start, i - 1)
                   [] b.kind = "Task" ->
                         IF UnwrapOrFalse(b.items[i].checked)
                         THEN <<"- [x] ">> ELSE <<"- [ ] ">>)
                \o TypBlocks(b.items[i].content)
                \o <<"\n">>])
      [] b.t = "ThematicBreak" -> <<"#line(length: 100%)">>
      [] b.t = "MathBlock" -> <<"$ ">> \o b.text \o <<" $">>
      [] b.t = "Raw" -> <<"#raw[">> \o b.text \o <<"]">>
      [] b.t = "Table" ->
            <<"#table(\n">>
            \o (IF IsSome(b.header)
                THEN Flatten([c \in 1..Len(Unwrap(b.header).cells) |->
                        <<"  table.header[">>
                        \o TypBlocks(Unwrap(b.header).cells[c].content) \o <<"],\n">>])
                ELSE <<>>)
            \o Flatten([r \in 1..Len(b.body) |->
                  Flatten([c \in 1..Len(b.body[r].cells) |->
                     <<"  [">> \o TypBlocks(b.body[r].cells[c].content) \o <<"],\n">>])])
            \o <<")">>
            \o (IF IsSome(b.caption)
                THEN <<"\n#figure.caption[">> \o TypInlines(Unwrap(b.caption)) \o <<"]">>
                ELSE <<>>)
      [] OTHER -> <<>>

\* TypstHandler::render
TypstRender(d) == JoinBlocks([i \in 1..Len(d.content) |-> TypBlock(d.content[i])])

InitDoc ==
    /\ src = <<>>
    /\ doc = <<>>
    /\ out = <<>>

\* FormatRegistry::new
InitRegistry ==
    /\ handlers = {}
    /\ call = NoCall
    /\ calls = <<>>
    /\ result = Ok(NoText)
    /\ InitDoc

\* FormatRegistry::register(&mut self): HashMap::insert under the handler's own
\* format. It needs exclusive access, so it cannot run while a convert call borrows
\* the registry.
Register(format) ==
    /\ call = NoCall
    /\ handlers' = handlers \cup {format}
    /\ UNCHANGED <<call, calls, result, docVars>>

\* A call of FormatRegistry::convert(&self, ..), up to its return value.
Convert(input, from, to, pOut, rOut) ==
    LET r == convert(handlers, input, from, to, pOut, rOut)
    IN /\ call = NoCall
       \* the answer of a handler that is not invoked is not drawn
       /\ pOut # NoError => \E i \in 1..Len(r.calls) : r.calls[i][1] = "parse"
       /\ rOut # NoError => \E i \in 1..Len(r.calls) : r.calls[i][1] = "render"
       /\ call' = [input |-> input, from |-> from, to |-> to, pOut |-> pOut, rOut |-> rOut]
       /\ result' = r.result
       /\ calls' = r.calls
       /\ UNCHANGED <<handlers, docVars>>

\* The caller takes the returned value; the borrow of the registry ends.
Return ==
    /\ call # NoCall
    /\ call' = NoCall
    /\ calls' = <<>>
    /\ result' = Ok(NoText)
    /\ UNCHANGED <<handlers, docVars>>

NextRegistry ==
    \/ \E format \in SourceFormat : Register(format)
    \/ \E input \in Texts, from \in SourceFormat, to \in SourceFormat,
          pOut \in ParseOutcomes, rOut \in RenderOutcomes :
            Convert(input, from, to, pOut, rOut)
    \/ Return

SpecRegistry == InitRegistry /\ [][NextRegistry]_vars

(***************************************************************************)
(* C1: for every format F and every input, convert(text, F, F) returns     *)
(* Ok(text) with the text unchanged and invokes no handler's parse or      *)
(* render, whether or not a handler is registered for F.                   *)
(***************************************************************************)
C1_IdentityConversion ==
    (call # NoCall /\ call.from = call.to) =>
        /\ result = Ok(call.input)
        /\ calls = <<>>

C1_Witness ==
    /\ call # NoCall
    /\ call.from = call.to
    /\ call.from \notin handlers
    /\ result = Ok(call.input)

(***************************************************************************)
(* C2: for from # to, convert resolves both adapters before any parsing:   *)
(* a missing source handler gives UnsupportedFeature{from, "parsing"},     *)
(* otherwise a missing target handler gives UnsupportedFeature{to,         *)
(* "rendering"}, in both cases with no parse and no render invoked; with   *)
(* both registered, a parse error is returned as is and render is not      *)
(* invoked.                                                                *)
(***************************************************************************)
C2_ResolveBeforeParse ==
    (call # NoCall /\ call.from # call.to) =>
        /\ call.from \notin handlers =>
              /\ result = Err(UnsupportedFeature(call.from, "parsing"))
              /\ calls = <<>>
        /\ (call.from \in handlers /\ call.to \notin handlers) =>
              /\ result = Err(UnsupportedFeature(call.to, "rendering"))
              /\ calls = <<>>
        /\ (call.from \in handlers /\ call.to \in handlers /\ call.pOut # NoError) =>
              /\ result = Err(call.pOut)
              /\ \A i \in 1..Len(calls) : calls[i][1] # "render"

C2_Witness ==
    /\ call # NoCall
    /\ call.from # call.to
    /\ call.from \in handlers
    /\ call.to \notin handlers
    /\ result = Err(UnsupportedFeature(call.to, "rendering"))
    /\ calls = <<>>

(***************************************************************************)
(* Concrete syntax, as the parsing libraries hand it to the adapters: a    *)
(* tree of nodes.  text is the node's own text (a sequence of pieces),     *)
(* level a heading depth or a list start, ordered the kind of a list, attr *)
(* a list kind, a class or a language where the library gives one.         *)
(***************************************************************************)
Syn(kind) ==
    [kind |-> kind, text |-> <<>>, children |-> <<>>, level |-> 0, ordered |-> FALSE,
     attr |-> ""]
Leaf(kind, text) == [Syn(kind) EXCEPT !.text = text]
Inner(kind, children) == [Syn(kind) EXCEPT !.children = children]

\* str::trim
RECURSIVE TrimStart(_)
TrimStart(s) == IF s # <<>> /\ Head(s) \in Whitespace THEN TrimStart(Tail(s)) ELSE s
RECURSIVE TrimEnd(_)
TrimEnd(s) ==
    IF s # <<>> /\ s[Len(s)] \in Whitespace THEN TrimEnd(SubSeq(s, 1, Len(s) - 1)) ELSE s
Trim(s) == TrimEnd(TrimStart(s))

\* usize as u8
AsU8(n) == n % 256

(***************************************************************************)
(* formats/typst.rs: the Typst parser.  typst_syntax::parse gives the root *)
(* markup node; SyntaxNode::text() is the text of a leaf or of an error    *)
(* node and is empty for an inner node.                                    *)
(***************************************************************************)
TypChildrenText(node) == Flatten([i \in 1..Len(node.children) |-> node.children[i].text])

\* parse_heading
parse_heading(node) ==
    LET markers == {i \in 1..Len(node.children) : node.children[i].kind = "HeadingMarker"}
        last == CHOOSE i \in markers : \A j \in markers : j <= i
        level == IF markers = {} THEN 1
                 ELSE AsU8(Cardinality({k \in 1..Len(node.children[last].text) :
                                          node.children[last].text[k] = "="}))
        content == Flatten([i \in 1..Len(node.children) |->
                              IF node.children[i].kind = "HeadingMarker" THEN <<>>
                              ELSE node.children[i].text])
    IN Heading(level, <<Text(Trim(content))>>)

\* parse_list_item
parse_list_item(node) ==
    LET content_text == Flatten([i \in 1..Len(node.children) |->
                                   IF node.children[i].kind \in {"ListMarker", "EnumMarker"}
                                   THEN <<>>
                                   ELSE node.children[i].text])
    IN ListItem(<<Paragraph(<<Text(Trim(content_text))>>)>>, None)

\* extract_text
extract_text(node) ==
    Trim(IF TypChildrenText(node) = <<>> THEN node.text ELSE TypChildrenText(node))

\* str::trim_matches for a set of characters
RECURSIVE TrimMatches(_, _)
TrimMatches(s, chars) ==
    IF s # <<>> /\ Head(s) \in chars THEN TrimMatches(Tail(s), chars)
    ELSE IF s # <<>> /\ s[Len(s)] \in chars
    THEN TrimMatches(SubSeq(s, 1, Len(s) - 1), chars)
    ELSE s

\* extract_raw_content: the node's text without the backquotes around it
extract_raw_content(node) == TrimMatches(node.text, {Backtick, Fence})

\* extract_raw_language
extract_raw_language(node) ==
    LET idents == {i \in 1..Len(node.children) : node.children[i].kind = "Ident"} IN
    IF idents = {} THEN None
    ELSE Some(node.children[CHOOSE i \in idents : \A j \in idents : i <= j].text)

\* The paragraph pushed when pending text is flushed
TypFlushed(blocks, current_text) ==
    IF Trim(current_text) # <<>>
    THEN Append(blocks, Paragraph(<<Text(Trim(current_text))>>))
    ELSE blocks

\* The SyntaxKind::ListItem arm of parse_syntax_tree: the item joins the list
\* that ends blocks, whatever its kind
TypListItem(blocks, item) ==
    IF blocks # <<>> /\ blocks[Len(blocks)].t = "List"
    THEN [blocks EXCEPT ![Len(blocks)].items = Append(@, item)]
    ELSE Append(blocks, List("Bullet", <<item>>, None))

\* The SyntaxKind::EnumItem arm
TypEnumItem(blocks, item) ==
    IF blocks # <<>> /\ blocks[Len(blocks)].t = "List" /\ blocks[Len(blocks)].kind = "Ordered"
    THEN [blocks EXCEPT ![Len(blocks)].items = Append(@, item)]
    ELSE Append(blocks, List("Ordered", <<item>>, Some(U32(1))))

RECURSIVE parse_syntax_tree(_)
RECURSIVE TypLoop(_, _, _)
\* One iteration of the loop over root.children(), then the rest
TypLoop(children, blocks, current_text) ==
    IF children = <<>> THEN TypFlushed(blocks, current_text)
    ELSE
    LET child == Head(children)
        rest == Tail(children)
    IN CASE child.kind = "Text" -> TypLoop(rest, blocks, current_text \o child.text)
         [] child.kind = "Space" ->
               TypLoop(rest, blocks,
                       IF current_text # <<>> THEN Append(current_text, " ") ELSE current_text)
         [] child.kind = "Parbreak" -> TypLoop(rest, TypFlushed(blocks, current_text), <<>>)
         [] child.kind = "Heading" ->
               TypLoop(rest, Append(TypFlushed(blocks, current_text), parse_heading(child)),
                       IF Trim(current_text) # <<>> THEN <<>> ELSE current_text)
         [] child.kind = "ListItem" ->
               TypLoop(rest, TypListItem(blocks, parse_list_item(child)), current_text)
         [] child.kind = "EnumItem" ->
               TypLoop(rest, TypEnumItem(blocks, parse_list_item(child)), current_text)
         [] child.kind = "Raw" ->
               TypLoop(rest,
                       Append(blocks, CodeBlock(extract_raw_language(child),
                                                extract_raw_content(child))),
                       current_text)
         [] child.kind = "Equation" ->
               TypLoop(rest,
                       Append(blocks, MathBlock(Trim(TrimMatches(child.text, {"$"})))),
                       current_text)
         [] child.kind = "Strong" ->
               TypLoop(rest, blocks, current_text \o <<"*">> \o extract_text(child) \o <<"*">>)
         [] child.kind = "Emph" ->
               TypLoop(rest, blocks, current_text \o <<"_">> \o extract_text(child) \o <<"_">>)
         [] child.kind = "Link" -> TypLoop(rest, blocks, current_text \o extract_text(child))
         [] child.kind = "Markup" ->
               TypLoop(rest, blocks \o parse_syntax_tree(child), current_text)
         [] OTHER ->
               TypLoop(rest, blocks,
                       IF child.text # <<>> /\ Trim(child.text) # <<>>
                       THEN current_text \o child.text ELSE current_text)

parse_syntax_tree(root) == TypLoop(root.children, <<>>, <<>>)

\* Whether the library reported a syntax error anywhere in the tree
RECURSIVE HasErrorNode(_)
HasErrorNode(node) ==
    \/ node.kind = "Error"
    \/ \E i \in 1..Len(node.children) : HasErrorNode(node.children[i])

\* TypstHandler::parse, on the tree typst_syntax::parse returned
TypstParse(tree) == [ok |-> TRUE, err |-> NoError, content |-> parse_syntax_tree(tree)]

(***************************************************************************)
(* formats/djot.rs: the Djot parser, on the events of jotdown::Parser.     *)
(* The events of a source are the traversal of its tree: Start and End     *)
(* around a container's children, one event for anything else.             *)
(***************************************************************************)
DjContainers ==
    {"Paragraph", "Heading", "CodeBlock", "Blockquote", "List", "ListItem", "TaskListItem",
     "Table", "Div", "Emphasis", "Strong", "Link", "Image", "Footnote", "RawBlock", "Section",
     "TableRow", "TableCell", "Caption", "DescriptionList", "DescriptionDetails",
     "DescriptionTerm", "LinkDefinition", "Span", "Verbatim", "Math", "RawInline",
     "Subscript", "Superscript", "Insert", "Delete", "Mark"}

RECURSIVE DjEvents(_)
DjEventsOf(nodes) == Flatten([i \in 1..Len(nodes) |-> DjEvents(nodes[i])])
DjEvents(node) ==
    IF node.kind \in DjContainers
    THEN <<[ev |-> "Start", c |-> [node EXCEPT !.children = <<>>]]>>
         \o DjEventsOf(node.children)
         \o <<[ev |-> "End", c |-> [node EXCEPT !.children = <<>>]]>>
    ELSE <<[ev |-> node.kind, c |-> node]>>

\* The contents of the Inline::Text among inlines, joined
JoinTexts(inlines) ==
    Flatten([i \in 1..Len(inlines) |-> IF inlines[i].t = "Text" THEN inlines[i].text ELSE <<>>])

\* container_to_block: an Option<Block>
container_to_block(container, child_blocks, inlines) ==
    CASE container.kind = "Paragraph" -> Some(Paragraph(inlines))
      [] container.kind = "Heading" -> Some(Heading(AsU8(container.level), inlines))
      [] container.kind = "CodeBlock" ->
            Some(CodeBlock(IF container.attr = "" THEN None ELSE Some(<<container.attr>>),
                           JoinTexts(inlines)))
      [] container.kind = "Blockquote" ->
            Some(BlockQuote(IF child_blocks = <<>> THEN <<Paragraph(inlines)>> ELSE child_blocks,
                            None))
      [] container.kind = "List" ->
            Some(List(CASE container.attr = "Unordered" -> "Bullet"
                        [] container.attr = "Ordered" -> "Ordered"
                        [] container.attr = "Task" -> "Task",
                      [i \in 1..Len(child_blocks) |-> ListItem(<<child_blocks[i]>>, None)],
                      None))
      [] container.kind = "ListItem" ->
            IF child_blocks # <<>> THEN Some(Head(child_blocks))
            ELSE IF inlines # <<>> THEN Some(Paragraph(inlines))
            ELSE None
      [] container.kind = "TaskListItem" ->
            IF child_blocks # <<>> THEN Some(Head(child_blocks)) ELSE Some(Paragraph(inlines))
      [] container.kind = "Table" ->
            LET raws == {i \in 1..Len(child_blocks) : child_blocks[i].t = "Raw"} IN
            Some(Table(IF raws = {} THEN None
                       ELSE Some(TableRow(<<TableCell(<<Paragraph(<<Text(
                                child_blocks[CHOOSE i \in raws : \A j \in raws : i <= j].text
                            )>>)>>)>>)),
                       <<>>, None))
      [] container.kind = "Div" ->
            IF container.attr \in {"note", "tip", "warning", "caution", "important"}
            THEN Some(BlockQuote(child_blocks,
                                 Some(CASE container.attr = "note" -> "Note"
                                        [] container.attr = "tip" -> "Tip"
                                        [] container.attr = "warning" -> "Warning"
                                        [] container.attr = "caution" -> "Caution"
                                        [] container.attr = "important" -> "Important")))
            ELSE IF child_blocks # <<>> THEN Some(Head(child_blocks)) ELSE None
      [] container.kind = "Footnote" ->
            Some(FootnoteDefinition(<<container.attr>>, child_blocks))
      [] container.kind = "RawBlock" -> Some(Raw(JoinTexts(inlines)))
      [] OTHER -> None

\* A frame of the stack of open containers
DjFrame(container) == [container |-> container, blocks |-> <<>>, inlines |-> <<>>]

\* A fold that appends every block to the document.
DjPushBlocksToRoot(st, bs) == [st EXCEPT !.blocks = @ \o bs]

\* Blocks go to the innermost open container, or to the document
DjPushBlocks(st, bs) ==
    IF st.stack # <<>>
    THEN [st EXCEPT !.stack[Len(st.stack)].blocks = @ \o bs]
    ELSE [st EXCEPT !.blocks = @ \o bs]
\* Inlines go to the innermost open container, or are dropped
DjPushInline(st, x) ==
    IF st.stack # <<>> THEN [st EXCEPT !.stack[Len(st.stack)].inlines = Append(@, x)] ELSE st

\* One iteration of the loop of parse_events
DjStep(st, event) ==
    CASE event.ev = "Start" -> [st EXCEPT !.stack = Append(@, DjFrame(event.c))]
      [] event.ev = "End" ->
            IF st.stack = <<>> THEN st
            ELSE LET top == st.stack[Len(st.stack)]
                     popped == [st EXCEPT !.stack = SubSeq(@, 1, Len(@) - 1)]
                     block == container_to_block(event.c, top.blocks, top.inlines)
                 IN IF event.c.kind = "Section" THEN DjPushBlocks(popped, top.blocks)
                    ELSE IF IsSome(block) THEN DjPushBlocks(popped, <<Unwrap(block)>>)
                    ELSE popped
      [] event.ev = "Str" -> DjPushInline(st, Text(event.c.text))
      [] event.ev = "Softbreak" -> DjPushInline(st, SoftBreak)
      [] event.ev = "Hardbreak" -> DjPushInline(st, LineBreak)
      [] event.ev = "NonBreakingSpace" -> DjPushInline(st, Text(<<"NBSP">>))
      [] event.ev = "ThematicBreak" -> DjPushBlocks(st, <<ThematicBreak>>)
      [] OTHER -> st

RECURSIVE DjLoop(_, _)
DjLoop(events, st) == IF events = <<>> THEN st ELSE DjLoop(Tail(events), DjStep(st, Head(events)))

\* parse_events
parse_events(events) == DjLoop(events, [blocks |-> <<>>, stack |-> <<>>]).blocks

\* DjotHandler::parse, on the tree whose events jotdown yields
DjotParse(tree) ==
    [ok |-> TRUE, err |-> NoError, content |-> parse_events(DjEventsOf(tree.children))]

(***************************************************************************)
(* formats/orgmode.rs: the Org-mode parser, on the events of Org::iter.    *)
(* orgize walks its tree and yields Start and End for every element, with *)
(* or without children.  A function that takes the event iterator is an    *)
(* operator from the events left to its value and the events it leaves.    *)
(***************************************************************************)
RECURSIVE OrgEvents(_)
OrgEventsOf(nodes) == Flatten([i \in 1..Len(nodes) |-> OrgEvents(nodes[i])])
OrgEvents(node) ==
    <<[ev |-> "Start", c |-> [node EXCEPT !.children = <<>>]]>>
    \o OrgEventsOf(node.children)
    \o <<[ev |-> "End", c |-> [node EXCEPT !.children = <<>>]]>>

IsStart(e, kind) == e.ev = "Start" /\ e.c.kind = kind
IsEnd(e, kind) == e.ev = "End" /\ e.c.kind = kind

\* convert_element: an Option<Block>
convert_element(element) ==
    CASE element.kind = "Title" -> Some(Heading(AsU8(element.level), <<Text(element.text)>>))
      [] element.kind = "SourceBlock" ->
            Some(CodeBlock(IF element.attr = "" THEN None ELSE Some(<<element.attr>>),
                           element.text))
      [] element.kind = "ExampleBlock" -> Some(CodeBlock(None, element.text))
      [] element.kind = "Rule" -> Some(ThematicBreak)
      [] element.kind = "FixedWidth" -> Some(CodeBlock(None, element.text))
      [] element.kind = "ExportBlock" -> Some(Raw(element.text))
      [] OTHER -> None

\* collect_inline_until_end
RECURSIVE collect_inline_until_end(_, _, _)
collect_inline_until_end(events, kind, inlines) ==
    IF events = <<>> THEN [val |-> inlines, rest |-> <<>>]
    ELSE LET e == Head(events) IN
         IF IsEnd(e, kind) THEN [val |-> inlines, rest |-> Tail(events)]
         ELSE IF e.c.kind = "Text"
         THEN collect_inline_until_end(Tail(events), kind, Append(inlines, Text(e.c.text)))
         ELSE IF e.c.kind = "Code"
         THEN collect_inline_until_end(Tail(events), kind, Append(inlines, Code(e.c.text)))
         ELSE collect_inline_until_end(Tail(events), kind, inlines)

\* collect_paragraph_content
RECURSIVE collect_paragraph_content(_, _)
collect_paragraph_content(events, inlines) ==
    IF events = <<>> THEN [val |-> inlines, rest |-> <<>>]
    ELSE LET e == Head(events)
             inner == collect_inline_until_end(Tail(events), e.c.kind, <<>>)
         IN
         IF IsEnd(e, "Paragraph") THEN [val |-> inlines, rest |-> Tail(events)]
         ELSE IF e.c.kind = "Text"
         THEN collect_paragraph_content(Tail(events), Append(inlines, Text(e.c.text)))
         ELSE IF IsStart(e, "Bold")
         THEN collect_paragraph_content(inner.rest, Append(inlines, Strong(inner.val)))
         ELSE IF IsStart(e, "Italic")
         THEN collect_paragraph_content(inner.rest, Append(inlines, Emphasis(inner.val)))
         ELSE IF IsStart(e, "Strike")
         THEN collect_paragraph_content(inner.rest, Append(inlines, Strikethrough(inner.val)))
         ELSE IF e.c.kind \in {"Code", "Verbatim"}
         THEN collect_paragraph_content(Tail(events), Append(inlines, Code(e.c.text)))
         ELSE IF IsStart(e, "Link")
         THEN collect_paragraph_content(Tail(events),
                 Append(inlines,
                        Link(<<e.c.attr>>, None,
                             <<Text(IF e.c.text # <<>> THEN e.c.text ELSE <<e.c.attr>>)>>)))
         ELSE collect_paragraph_content(Tail(events), inlines)

\* What the callers push for a paragraph: nothing when it has no inlines
OrgParagraph(inlines) == IF inlines = <<>> THEN <<>> ELSE <<Paragraph(inlines)>>

\* collect_block_content
RECURSIVE collect_block_content(_, _, _, _)
collect_block_content(events, kind, depth, blocks) ==
    IF events = <<>> THEN [val |-> blocks, rest |-> <<>>]
    ELSE LET e == Head(events)
             par == collect_paragraph_content(Tail(events), <<>>)
         IN
         IF IsStart(e, kind) THEN collect_block_content(Tail(events), kind, depth + 1, blocks)
         ELSE IF IsEnd(e, kind)
         THEN (IF depth - 1 = 0 THEN [val |-> blocks, rest |-> Tail(events)]
               ELSE collect_block_content(Tail(events), kind, depth - 1, blocks))
         ELSE IF IsStart(e, "Paragraph")
         THEN collect_block_content(par.rest, kind, depth, blocks \o OrgParagraph(par.val))
         ELSE IF IsStart(e, "Text")
         THEN collect_block_content(Tail(events), kind, depth,
                                    Append(blocks, Paragraph(<<Text(e.c.text)>>)))
         ELSE collect_block_content(Tail(events), kind, depth, blocks)

OrgListKind(list) == IF list.ordered THEN "Ordered" ELSE "Bullet"

RECURSIVE collect_list_items(_, _, _)
RECURSIVE collect_list_item_content(_, _)
\* collect_list_items
collect_list_items(events, depth, items) ==
    IF events = <<>> THEN [val |-> items, rest |-> <<>>]
    ELSE LET e == Head(events)
             item == collect_list_item_content(Tail(events), <<>>)
         IN
         IF IsStart(e, "List") THEN collect_list_items(Tail(events), depth + 1, items)
         ELSE IF IsEnd(e, "List")
         THEN (IF depth - 1 = 0 THEN [val |-> items, rest |-> Tail(events)]
               ELSE collect_list_items(Tail(events), depth - 1, items))
         ELSE IF IsStart(e, "ListItem")
         THEN collect_list_items(item.rest, depth, Append(items, ListItem(item.val, None)))
         ELSE collect_list_items(Tail(events), depth, items)

\* collect_list_item_content
collect_list_item_content(events, blocks) ==
    IF events = <<>> THEN [val |-> blocks, rest |-> <<>>]
    ELSE LET e == Head(events)
             par == collect_paragraph_content(Tail(events), <<>>)
             nested == collect_list_items(Tail(events), 1, <<>>)
         IN
         IF IsEnd(e, "ListItem") THEN [val |-> blocks, rest |-> Tail(events)]
         ELSE IF IsStart(e, "Paragraph")
         THEN collect_list_item_content(par.rest, blocks \o OrgParagraph(par.val))
         ELSE IF IsStart(e, "List")
         THEN collect_list_item_content(nested.rest,
                                        Append(blocks, List(OrgListKind(e.c), nested.val, None)))
         ELSE IF IsStart(e, "Text")
         THEN collect_list_item_content(Tail(events),
                                        Append(blocks, Paragraph(<<Text(e.c.text)>>)))
         ELSE collect_list_item_content(Tail(events), blocks)

\* skip_until_end_row: the events after the next End(TableRow)
RECURSIVE skip_until_end_row(_)
skip_until_end_row(events) ==
    IF events = <<>> THEN <<>>
    ELSE IF IsEnd(Head(events), "TableRow") THEN Tail(events)
    ELSE skip_until_end_row(Tail(events))

\* collect_cell_text
RECURSIVE collect_cell_text(_, _)
collect_cell_text(events, text) ==
    IF events = <<>> THEN [val |-> text, rest |-> <<>>]
    ELSE LET e == Head(events) IN
         IF IsEnd(e, "TableCell") THEN [val |-> text, rest |-> Tail(events)]
         ELSE IF e.c.kind = "Text" THEN collect_cell_text(Tail(events), text \o e.c.text)
         ELSE collect_cell_text(Tail(events), text)

\* collect_table_row_cells
RECURSIVE collect_table_row_cells(_, _)
collect_table_row_cells(events, cells) ==
    IF events = <<>> THEN [val |-> cells, rest |-> <<>>]
    ELSE LET e == Head(events)
             cell == collect_cell_text(Tail(events), <<>>)
         IN
         IF IsEnd(e, "TableRow") THEN [val |-> cells, rest |-> Tail(events)]
         ELSE IF IsStart(e, "TableCell")
         THEN collect_table_row_cells(cell.rest,
                 Append(cells, TableCell(<<Paragraph(<<Text(Trim(cell.val))>>)>>)))
         ELSE collect_table_row_cells(Tail(events), cells)

\* A table where every first row is the header, also after a rule.
IsHeaderRowAfterRule(in_header, header_row) == header_row = None

\* collect_table_content, the test that sends a row to the header:
\* in_header && header_row.is_none()
IsHeaderRow(in_header, header_row) == in_header /\ header_row = None

\* collect_table_content: val is <<header_row, body_rows>>
RECURSIVE collect_table_content(_, _, _, _, _)
collect_table_content(events, depth, in_header, header_row, body_rows) ==
    IF events = <<>> THEN [val |-> <<header_row, body_rows>>, rest |-> <<>>]
    ELSE LET e == Head(events)
             row == collect_table_row_cells(Tail(events), <<>>)
         IN
         IF IsStart(e, "Table")
         THEN collect_table_content(Tail(events), depth + 1, in_header, header_row, body_rows)
         ELSE IF IsEnd(e, "Table")
         THEN (IF depth - 1 = 0
               THEN [val |-> <<header_row, body_rows>>, rest |-> Tail(events)]
               ELSE collect_table_content(Tail(events), depth - 1, in_header, header_row,
                                          body_rows))
         ELSE IF IsStart(e, "TableRow") /\ e.c.attr \in {"HeaderRule", "BodyRule"}
         THEN collect_table_content(skip_until_end_row(Tail(events)), depth, FALSE,
                                    header_row, body_rows)
         ELSE IF IsStart(e, "TableRow") /\ e.c.attr \in {"Header", "Body"}
         THEN (IF row.val = <<>>
               THEN collect_table_content(row.rest, depth, in_header, header_row, body_rows)
               ELSE IF IsHeaderRow(in_header, header_row)
               THEN collect_table_content(row.rest, depth, in_header,
                                          Some(TableRow(row.val)), body_rows)
               ELSE collect_table_content(row.rest, depth, in_header, header_row,
                                          Append(body_rows, TableRow(row.val))))
         ELSE collect_table_content(Tail(events), depth, in_header, header_row, body_rows)

\* handle_container: val is an Option<Block>
handle_container(element, events) ==
    CASE element.kind = "Paragraph" ->
            LET par == collect_paragraph_content(events, <<>>) IN
            [val |-> IF par.val = <<>> THEN None ELSE Some(Paragraph(par.val)),
             rest |-> par.rest]
      [] element.kind = "QuoteBlock" ->
            LET q == collect_block_content(events, "QuoteBlock", 1, <<>>) IN
            [val |-> Some(BlockQuote(q.val, None)), rest |-> q.rest]
      [] element.kind = "List" ->
            LET l == collect_list_items(events, 1, <<>>) IN
            [val |-> Some(List(OrgListKind(element), l.val, None)), rest |-> l.rest]
      [] element.kind = "Table" ->
            LET tb == collect_table_content(events, 1, TRUE, None, <<>>) IN
            [val |-> Some(Table(tb.val[1], tb.val[2], None)), rest |-> tb.rest]
      [] OTHER -> [val |-> None, rest |-> events]

\* parse_org
RECURSIVE OrgLoop(_, _)
OrgLoop(events, blocks) ==
    IF events = <<>> THEN blocks
    ELSE LET e == Head(events)
             simple == convert_element(e.c)
             container == handle_container(e.c, Tail(events))
         IN
         IF e.ev = "Start"
         THEN (IF IsSome(simple) THEN OrgLoop(Tail(events), Append(blocks, Unwrap(simple)))
               ELSE OrgLoop(container.rest,
                            IF IsSome(container.val) THEN Append(blocks, Unwrap(container.val))
                            ELSE blocks))
         ELSE OrgLoop(Tail(events), blocks)
parse_org(events) == OrgLoop(events, <<>>)

\* OrgModeHandler::parse, on the tree Org::parse built
OrgModeParse(tree) == [ok |-> TRUE, err |-> NoError, content |-> parse_org(OrgEvents(tree))]

(***************************************************************************)
(* formats/rst.rs: the reStructuredText parser, on the document tree of    *)
(* rst_parser::parse, which may also reject the input.                     *)
(***************************************************************************)
RstBodyElements ==
    {"Paragraph", "LiteralBlock", "BlockQuote", "BulletList", "EnumeratedList", "Note",
     "Warning", "Tip", "Important", "Caution", "Danger", "MathBlock"}

\* The strings among the children, joined
RstStrings(elements) ==
    Flatten([i \in 1..Len(elements) |->
               IF elements[i].kind = "String" THEN elements[i].text ELSE <<>>])

\* convert_text_elements
RECURSIVE convert_text_elements(_)
convert_text_elements(elements) ==
    Flatten([i \in 1..Len(elements) |->
        LET elem == elements[i] IN
        CASE elem.kind = "String" -> <<Text(elem.text)>>
          [] elem.kind = "Emphasis" -> <<Emphasis(convert_text_elements(elem.children))>>
          [] elem.kind = "Strong" -> <<Strong(convert_text_elements(elem.children))>>
          [] elem.kind = "Literal" -> <<Code(RstStrings(elem.children))>>
          [] elem.kind = "Reference" ->
                <<Link(<<>>, None, convert_text_elements(elem.children))>>
          [] elem.kind = "Superscript" -> <<Superscript(convert_text_elements(elem.children))>>
          [] elem.kind = "Subscript" -> <<Subscript(convert_text_elements(elem.children))>>
          [] elem.kind = "Math" -> <<Math(RstStrings(elem.children), "LaTeX")>>
          [] OTHER -> <<>>])

\* extract_text_content
extract_text_content(elements) == RstStrings(elements)

\* convert_body_element, as the sequence of zero or one block it yields
RECURSIVE convert_body_element(_)
RstBodyBlocks(elements) ==
    Flatten([i \in 1..Len(elements) |->
               IF elements[i].kind \in RstBodyElements
               THEN convert_body_element(elements[i]) ELSE <<>>])
RstItems(list) ==
    [i \in 1..Len(list.children) |-> ListItem(RstBodyBlocks(list.children[i].children), None)]
convert_body_element(element) ==
    CASE element.kind = "Paragraph" -> <<Paragraph(convert_text_elements(element.children))>>
      [] element.kind = "LiteralBlock" ->
            <<CodeBlock(None, extract_text_content(element.children))>>
      [] element.kind = "BlockQuote" -> <<BlockQuote(RstBodyBlocks(element.children), None)>>
      [] element.kind = "BulletList" -> <<List("Bullet", RstItems(element), None)>>
      [] element.kind = "EnumeratedList" ->
            <<List("Ordered", RstItems(element), Some(U32(1)))>>
      [] element.kind \in {"Note", "Warning", "Tip", "Important", "Caution", "Danger"} ->
            <<BlockQuote(RstBodyBlocks(element.children), Some(element.kind))>>
      [] element.kind = "MathBlock" -> <<MathBlock(RstStrings(element.children))>>
      [] OTHER -> <<>>

\* convert_structural_element with convert_substructure: the blocks pushed
RECURSIVE convert_structural_element(_)
convert_structural_element(element) ==
    CASE element.kind = "Title" -> <<Heading(1, convert_text_elements(element.children))>>
      [] element.kind = "Subtitle" -> <<Heading(2, convert_text_elements(element.children))>>
      [] element.kind \in RstBodyElements -> convert_body_element(element)
      [] element.kind = "Section" ->
            Flatten([i \in 1..Len(element.children) |->
                       convert_structural_element(element.children[i])])
      [] element.kind = "Transition" -> <<ThematicBreak>>
      [] OTHER -> <<>>

\* convert_rst_document
convert_rst_document(tree) ==
    Flatten([i \in 1..Len(tree.children) |-> convert_structural_element(tree.children[i])])

\* RstHandler::parse, on what rst_parser::parse returned: a tree, or an error
RstParse(rejected, tree) ==
    IF rejected
    THEN [ok |-> FALSE, err |-> ParseError(0), content |-> <<>>]
    ELSE [ok |-> TRUE, err |-> NoError, content |-> convert_rst_document(tree)]

(***************************************************************************)
(* formats/markdown.rs: the Markdown parser, on the tree of comrak         *)
(***************************************************************************)
\* The texts among the children, joined
MdTexts(nodes) ==
    Flatten([i \in 1..Len(nodes) |-> IF nodes[i].kind = "Text" THEN nodes[i].text ELSE <<>>])

MdOptTitle(node) == IF node.text = <<>> THEN None ELSE Some(node.text)

\* parse_inline, as the sequence of zero or one inline it yields
RECURSIVE parse_inline(_)
parse_inlines(node) == Flatten([i \in 1..Len(node.children) |-> parse_inline(node.children[i])])
parse_inline(node) ==
    CASE node.kind = "Text" -> <<Text(node.text)>>
      [] node.kind = "SoftBreak" -> <<SoftBreak>>
      [] node.kind = "LineBreak" -> <<LineBreak>>
      [] node.kind = "Code" -> <<Code(node.text)>>
      [] node.kind = "Emph" -> <<Emphasis(parse_inlines(node))>>
      [] node.kind = "Strong" -> <<Strong(parse_inlines(node))>>
      [] node.kind = "Strikethrough" -> <<Strikethrough(parse_inlines(node))>>
      [] node.kind = "Link" -> <<Link(<<node.attr>>, MdOptTitle(node), parse_inlines(node))>>
      [] node.kind = "Image" ->
            <<Image(<<node.attr>>, MdTexts(node.children), MdOptTitle(node))>>
      [] node.kind = "FootnoteReference" -> <<FootnoteRef(node.text)>>
      [] node.kind = "HtmlInline" -> <<RawInline(node.text)>>
      [] OTHER -> <<>>

\* detect_admonition
detect_admonition(node) == None

\* parse_node, as the sequence of zero or one block it yields
RECURSIVE parse_node(_)
parse_children(node) == Flatten([i \in 1..Len(node.children) |-> parse_node(node.children[i])])
MdTableRows(node, is_header) ==
    SelectSeq([i \in 1..Len(node.children) |-> node.children[i]],
              LAMBDA row : row.kind = "TableRow" /\ row.ordered = is_header)
MdTableRow(row) ==
    TableRow([c \in 1..Len(row.children) |->
                TableCell(<<Paragraph(parse_inlines(row.children[c]))>>)])
parse_node(node) ==
    CASE node.kind = "Paragraph" -> <<Paragraph(parse_inlines(node))>>
      [] node.kind = "Heading" -> <<Heading(node.level, parse_inlines(node))>>
      [] node.kind = "CodeBlock" ->
            <<CodeBlock(IF node.attr = "" THEN None ELSE Some(<<node.attr>>), node.text)>>
      [] node.kind = "BlockQuote" -> <<BlockQuote(parse_children(node), detect_admonition(node))>>
      [] node.kind = "List" ->
            <<List(IF node.ordered THEN "Ordered"
                   ELSE IF \E i \in 1..Len(node.children) : node.children[i].kind = "TaskItem"
                   THEN "Task" ELSE "Bullet",
                   [i \in 1..Len(node.children) |->
                      ListItem(parse_children(node.children[i]),
                               IF node.children[i].kind = "TaskItem"
                               THEN Some(node.children[i].ordered) ELSE None)],
                   IF node.level > 1 THEN Some(U32(node.level)) ELSE None)>>
      [] node.kind = "ThematicBreak" -> <<ThematicBreak>>
      [] node.kind = "Table" ->
            LET headers == MdTableRows(node, TRUE)
                bodies == MdTableRows(node, FALSE)
            IN <<Table(IF headers = <<>> THEN None
                       ELSE Some(MdTableRow(headers[Len(headers)])),
                       [r \in 1..Len(bodies) |-> MdTableRow(bodies[r])], None)>>
      [] node.kind = "FootnoteDefinition" ->
            <<FootnoteDefinition(node.text, parse_children(node))>>
      [] node.kind = "HtmlBlock" -> <<Raw(node.text)>>
      [] OTHER -> <<>>

\* MarkdownHandler::parse, on the tree comrak::parse_document built
MarkdownParse(tree) == [ok |-> TRUE, err |-> NoError, content |-> parse_children(tree)]

(***************************************************************************)
(* formats/plaintext.rs: the plain text parser, on the input itself        *)
(***************************************************************************)
\* str::split("\n\n")
RECURSIVE SplitBlankFrom(_, _)
SplitBlankFrom(s, cur) ==
    IF s = <<>> THEN <<cur>>
    ELSE IF Len(s) >= 2 /\ s[1] = "\n" /\ s[2] = "\n"
    THEN <<cur>> \o SplitBlankFrom(SubSeq(s, 3, Len(s)), <<>>)
    ELSE SplitBlankFrom(Tail(s), Append(cur, Head(s)))
SplitBlank(s) == SplitBlankFrom(s, <<>>)

\* PlainTextHandler::parse
PlainTextParse(input) ==
    LET paragraphs == SelectSeq(SplitBlank(input), LAMBDA p : Trim(p) # <<>>) IN
    [ok |-> TRUE, err |-> NoError,
     content |-> [i \in 1..Len(paragraphs) |-> Paragraph(<<Text(Trim(paragraphs[i]))>>)]]

(***************************************************************************)
(* Rendering: a caller builds a Document block by block and hands it to a  *)
(* handler's render.                                                       *)
(***************************************************************************)
MaxBlocks == 2
MaxItems == 2

\* The six handlers of formats/mod.rs (the AsciiDoc module is not compiled).
Handlers == {"PlainText", "Markdown", "Djot", "OrgMode", "ReStructuredText", "Typst"}

Para(w) == Paragraph(<<Text(<<w>>)>>)
Items(n) == [i \in 1..n |-> ListItem(<<Para(<<"a", "b", "c">>[((i - 1) % 3) + 1])>>, None)]
TaskItems(n) == [i \in 1..n |-> ListItem(<<Para("todo")>>, Some(i % 2 = 1))]
Starts == {None, Some(U32(3)), Some(U32Max)}

\* The blocks a document is built from.
RenderBlocks ==
    {Para("intro"), Heading(2, <<Text(<<"Title">>)>>),
     Paragraph(<<Underline(<<Text(<<"u">>)>>), Text(<<"x">>), SmallCaps(<<Text(<<"sc">>)>>)>>),
     MathBlock(<<"x^2">>), TableOfContents,
     DefinitionList(<<ListItem(<<Para("term")>>, None)>>),
     List("Bullet", Items(MaxItems), None), List("Task", TaskItems(MaxItems), None)}
    \cup {List("Ordered", Items(n), s) : n \in 1..MaxItems, s \in Starts}
    \cup {BlockQuote(<<Para("quoted")>>, a) : a \in {None} \cup {Some(k) : k \in AdmonitionType}}

NoOutput == [done |-> FALSE, format |-> "none", build |-> "none", ok |-> FALSE, text |-> <<>>]

InRange(s, x) == \E i \in 1..Len(s) : s[i] = x

\* Renderer::render of the handler registered for a format, in a given build:
\* Ok(text), or no value when the call panicked.
render(format, d, build) ==
    LET text == CASE format = "PlainText" -> PlainTextRender(d)
                  [] format = "Markdown" -> MarkdownRender(d)
                  [] format = "Djot" -> DjotRender(d, build)
                  [] format = "OrgMode" -> OrgModeRender(d, build)
                  [] format = "ReStructuredText" -> RstRender(d)
                  [] format = "Typst" -> TypstRender(d)
    IN IF InRange(text, Panic)
       THEN [ok |-> FALSE, text |-> <<Panic>>]
       ELSE [ok |-> TRUE, text |-> text]

InitRender ==
    /\ handlers = {}
    /\ call = NoCall
    /\ calls = <<>>
    /\ result = Ok(NoText)
    /\ src = <<>>
    /\ doc = Document("Markdown", <<>>)
    /\ out = NoOutput

\* The caller appends a block to the document it is building.
AppendBlock(b) ==
    /\ ~out.done
    /\ Len(doc.content) < MaxBlocks
    /\ doc' = [doc EXCEPT !.content = Append(@, b)]
    /\ UNCHANGED <<regVars, src, out>>

\* handler.render(&doc, &config)
Render(format, build) ==
    LET r == render(format, doc, build) IN
    /\ ~out.done
    /\ out' = [done |-> TRUE, format |-> format, build |-> build, ok |-> r.ok, text |-> r.text]
    /\ UNCHANGED <<regVars, src, doc>>

\* The caller drops the output and the document and starts a new one.
NewDocument ==
    /\ out.done
    /\ doc' = Document("Markdown", <<>>)
    /\ out' = NoOutput
    /\ UNCHANGED <<regVars, src>>

NextRender ==
    \/ \E b \in RenderBlocks : AppendBlock(b)
    \/ \E format \in Handlers, build \in Builds : Render(format, build)
    \/ NewDocument

SpecRender == InitRender /\ [][NextRender]_vars

\* C4: every handler's render returns Ok for every Document; nothing a format
\* cannot express makes render fail or abort.
C4_RenderReturnsOk == out.done => out.ok

\* A Djot render in a build with overflow checks of an ordered list whose
\* start is u32::MAX and which has two items aborts.
C4_Divergence ==
    /\ out.done /\ ~out.ok
    /\ out.format = "Djot" /\ out.build = "debug"
    /\ doc.content = <<List("Ordered", Items(2), Some(U32Max))>>

DigitSet == {Digits[i] : i \in 1..Len(Digits)}

\* The ordered-list labels of a rendered text: the digits before each ". "
RECURSIVE LabelsFrom(_, _)
LabelsFrom(s, cur) ==
    IF s = <<>> THEN <<>>
    ELSE IF Head(s) = ". " THEN <<cur>> \o LabelsFrom(Tail(s), <<>>)
    ELSE IF Head(s) \in DigitSet THEN LabelsFrom(Tail(s), Append(cur, Head(s)))
    ELSE LabelsFrom(Tail(s), <<>>)
OrderedLabels(text) == LabelsFrom(text, <<>>)

\* The labels s, s+1, ..., s+n-1 (1, 2, ..., n without a start) of the ordered
\* lists among the top-level blocks, in order
NumberedFromStart(blocks) ==
    Flatten([k \in 1..Len(blocks) |->
        IF blocks[k].t = "List" /\ blocks[k].kind = "Ordered"
        THEN [i \in 1..Len(blocks[k].items) |->
                DecimalU32(WideAdd(IF IsSome(blocks[k].start)
                                   THEN Unwrap(blocks[k].start) ELSE U32(1), i - 1))]
        ELSE <<>>])

OrderedListFormats == {"Markdown", "Djot", "OrgMode", "ReStructuredText", "Typst"}

\* C6: in every renderer that emits ordered lists, the item labels of an
\* Ordered list with start = Some(s) and n items are s, s+1, ..., s+n-1, and
\* 1, 2, ..., n with start = None.
C6_OrderedLabelsFromStart ==
    (out.done /\ out.ok /\ out.format \in OrderedListFormats)
        => OrderedLabels(out.text) = NumberedFromStart(doc.content)

\* Markdown numbers a two-item list that starts at 3 as 1, 2.
C6_Divergence ==
    /\ out.done /\ out.format = "Markdown"
    /\ doc.content = <<List("Ordered", Items(2), Some(U32(3)))>>
    /\ OrderedLabels(out.text) = << <<"1">>, <<"2">> >>

\* The document with the admonition kind of every BlockQuote set to None
RECURSIVE WithoutAdmonition(_)
WithoutAdmonitions(bs) == [i \in 1..Len(bs) |-> WithoutAdmonition(bs[i])]
WithoutAdmonition(b) ==
    IF b.t = "BlockQuote"
    THEN [b EXCEPT !.admonition = None, !.blocks = WithoutAdmonitions(b.blocks)]
    ELSE b

NoAdmonitionFormats == {"Markdown", "OrgMode", "Typst", "PlainText"}

\* C7: a renderer of a format without native admonitions gives a BlockQuote
\* with admonition = Some(k) the output it gives the same BlockQuote with
\* admonition = None, for every kind k.
C7_AdmonitionDiscarded ==
    (out.done /\ out.format \in NoAdmonitionFormats)
        => LET r == render(out.format, [doc EXCEPT !.content = WithoutAdmonitions(@)],
                           out.build)
           IN out.ok = r.ok /\ out.text = r.text

C7_Witness ==
    /\ out.done /\ out.ok /\ out.format = "Markdown"
    /\ \E i \in 1..Len(doc.content) :
          doc.content[i].t = "BlockQuote" /\ doc.content[i].admonition = Some("Warning")

(***************************************************************************)
(* Parsing: a source is written construct by construct in one format, the  *)
(* format's library turns it into concrete syntax, the adapter parses that *)
(* and the caller may render the Document back with the same adapter.      *)
(***************************************************************************)
MaxNodes == 3
DeepLevel == 7
HeadingLevels == {2, DeepLevel}

\* The index of the first node after the first that satisfies closes a
\* section of the given level, or Len + 1
NextAtLevel(nodes, kind, level) ==
    LET js == {j \in 2..Len(nodes) : nodes[j].kind = kind /\ nodes[j].level <= level} IN
    IF js = {} THEN Len(nodes) + 1 ELSE CHOOSE j \in js : \A k \in js : j <= k
FirstOfKind(nodes, kind) ==
    LET js == {j \in 1..Len(nodes) : nodes[j].kind = kind} IN
    IF js = {} THEN Len(nodes) + 1 ELSE CHOOSE j \in js : \A k \in js : j <= k

\* Typst: the children of the root markup node
TypSpace == Leaf("Space", <<" ">>)
TypNewline == Leaf("Space", <<"\n">>)
TypParbreak == Leaf("Parbreak", <<"\n", "\n">>)
TypMarkup(w) == Inner("Markup", <<Leaf("Text", <<w>>)>>)
TypSrcHeading(n) ==
    [Inner("Heading", <<Leaf("HeadingMarker", Repeat("=", n)), TypSpace, TypMarkup("Title")>>)
        EXCEPT !.level = n]
TypSrcListItem(w) == Inner("ListItem", <<Leaf("ListMarker", <<"-">>), TypSpace, TypMarkup(w)>>)
TypSrcEnumItem(w) == Inner("EnumItem", <<Leaf("EnumMarker", <<"+">>), TypSpace, TypMarkup(w)>>)
TypSrcRaw ==
    Inner("Raw", <<Leaf("RawDelim", <<Fence>>), Leaf("Text", <<"code">>),
                   Leaf("RawDelim", <<Fence>>)>>)
TypSrcEquation ==
    Inner("Equation", <<Leaf("Dollar", <<"$">>), Inner("Math", <<Leaf("Text", <<"x">>)>>),
                        Leaf("Dollar", <<"$">>)>>)
\* an end of block comment without a beginning: "unexpected end of block comment"
TypSrcError == Leaf("Error", <<"*/">>)
TypstConstructs ==
    {Leaf("Text", <<"intro">>), TypParbreak, TypSrcListItem("a"), TypSrcEnumItem("one"),
     TypSrcRaw, TypSrcEquation, TypSrcError}
    \cup {TypSrcHeading(n) : n \in HeadingLevels}
\* Constructs on consecutive lines have the line break between them as a space
TypstTree(nodes) ==
    Inner("Markup",
          Flatten([i \in 1..Len(nodes) |->
                     IF i > 1 /\ nodes[i].kind # "Parbreak" /\ nodes[i - 1].kind # "Parbreak"
                     THEN <<TypNewline, nodes[i]>> ELSE <<nodes[i]>>]))

\* Djot: a heading opens a section that holds what follows it
DjSrcHeading(n) == [Inner("Heading", <<Leaf("Str", <<"Title">>)>>) EXCEPT !.level = n]
DjSrcParagraph(w) == Inner("Paragraph", <<Leaf("Str", <<w>>)>>)
DjSrcItem(w) == Inner("ListItem", <<DjSrcParagraph(w)>>)
\* a list marker with nothing after it
DjSrcEmptyItem == Inner("ListItem", <<>>)
DjSrcList(kind, items) == [Inner("List", items) EXCEPT !.attr = kind]
\* a paragraph that is one emphasised word: "_hi_"
DjSrcEmphasized == Inner("Paragraph", <<Inner("Emphasis", <<Leaf("Str", <<"hi">>)>>)>>)
\* a quote marker with nothing after it: ">"
DjSrcEmptyQuote == Inner("Blockquote", <<>>)
\* a pipe table of the given number of rows, one cell each
DjSrcTable(rows) ==
    Inner("Table", [r \in 1..rows |->
                       Inner("TableRow", <<Inner("TableCell", <<Leaf("Str", <<"a">>)>>)>>)])
DjotConstructs ==
    {DjSrcHeading(2), DjSrcParagraph("intro"), Leaf("ThematicBreak", <<>>),
     Leaf("Blankline", <<>>), DjSrcEmphasized, DjSrcEmptyQuote, DjSrcTable(MaxItems),
     DjSrcList("Ordered", <<DjSrcItem("one")>>),
     DjSrcList("Unordered", <<DjSrcItem("a"), DjSrcEmptyItem>>)}
    \cup {DjSrcList("Unordered", [i \in 1..n |-> DjSrcItem("a")]) : n \in 1..MaxItems}
RECURSIVE DjSections(_)
DjSections(nodes) ==
    IF nodes = <<>> THEN <<>>
    ELSE IF Head(nodes).kind = "Heading"
    THEN LET k == NextAtLevel(nodes, "Heading", Head(nodes).level) IN
         <<Inner("Section", <<Head(nodes)>> \o DjSections(SubSeq(nodes, 2, k - 1)))>>
         \o DjSections(SubSeq(nodes, k, Len(nodes)))
    ELSE <<Head(nodes)>> \o DjSections(Tail(nodes))
DjotTree(nodes) == Inner("Document", DjSections(nodes))

\* Org-mode: a headline holds its title, a section and its sub-headlines
OrgSrcHeadline(n) ==
    [Inner("Headline",
           <<[Leaf("Title", <<"Title">>) EXCEPT !.level = n,
                                                !.children = <<Leaf("Text", <<"Title">>)>>]>>)
        EXCEPT !.level = n]
OrgSrcParagraph(w) == Inner("Paragraph", <<Leaf("Text", <<w>>)>>)
OrgSrcList(ordered, n) ==
    [Inner("List", [i \in 1..n |-> [Inner("ListItem", <<OrgSrcParagraph("a")>>)
                                       EXCEPT !.ordered = ordered]])
        EXCEPT !.ordered = ordered]
OrgConstructs ==
    {OrgSrcParagraph("intro"), Leaf("Rule", <<>>), OrgSrcList(TRUE, 1)}
    \cup {OrgSrcHeadline(n) : n \in HeadingLevels}
    \cup {OrgSrcList(FALSE, n) : n \in 1..MaxItems}
RECURSIVE OrgBody(_)
OrgBody(nodes) ==
    IF nodes = <<>> THEN <<>>
    ELSE IF Head(nodes).kind = "Headline"
    THEN LET k == NextAtLevel(nodes, "Headline", Head(nodes).level) IN
         <<[Head(nodes) EXCEPT !.children = @ \o OrgBody(SubSeq(nodes, 2, k - 1))]>>
         \o OrgBody(SubSeq(nodes, k, Len(nodes)))
    ELSE LET m == FirstOfKind(nodes, "Headline") IN
         <<Inner("Section", SubSeq(nodes, 1, m - 1))>> \o OrgBody(SubSeq(nodes, m, Len(nodes)))
OrgTree(nodes) == Inner("Document", OrgBody(nodes))

\* reStructuredText: a title opens a section; its level is the depth at which
\* its adornment style was first met, kept here on the node
RstSrcTitle(depth, w) == [Inner("Title", <<Leaf("String", <<w>>)>>) EXCEPT !.level = depth]
RstSrcParagraph(w) == Inner("Paragraph", <<Leaf("String", <<w>>)>>)
RstSrcList(kind, n) == Inner(kind, [i \in 1..n |-> Inner("ListItem", <<RstSrcParagraph("a")>>)])
\* a construct the grammar of rst_parser has no rule for
RstSrcMalformed == Leaf("Malformed", <<"??">>)
RstConstructs ==
    {RstSrcTitle(1, "Top"), RstSrcTitle(2, "Title"), RstSrcParagraph("intro"),
     Leaf("Transition", <<>>), RstSrcList("EnumeratedList", 1), RstSrcMalformed}
    \cup {RstSrcList("BulletList", n) : n \in 1..MaxItems}
RECURSIVE RstBody(_)
RstBody(nodes) ==
    IF nodes = <<>> THEN <<>>
    ELSE IF Head(nodes).kind = "Title"
    THEN LET k == NextAtLevel(nodes, "Title", Head(nodes).level) IN
         <<Inner("Section", <<Head(nodes)>> \o RstBody(SubSeq(nodes, 2, k - 1)))>>
         \o RstBody(SubSeq(nodes, k, Len(nodes)))
    ELSE <<Head(nodes)>> \o RstBody(Tail(nodes))
RstTree(nodes) == Inner("Document", RstBody(nodes))
RstRejects(nodes) == \E i \in 1..Len(nodes) : nodes[i].kind = "Malformed"

\* Markdown: the children of comrak's document node
MdSrcParagraph(w) == Inner("Paragraph", <<Leaf("Text", <<w>>)>>)
MdSrcHeading(n) == [Inner("Heading", <<Leaf("Text", <<"Title">>)>>) EXCEPT !.level = n]
MdSrcList(ordered, start, n) ==
    [Inner("List", [i \in 1..n |-> Inner("Item", <<MdSrcParagraph("a")>>)])
        EXCEPT !.ordered = ordered, !.level = start]
MarkdownConstructs ==
    {MdSrcParagraph("intro"), MdSrcHeading(2), Leaf("ThematicBreak", <<>>),
     MdSrcList(TRUE, 1, 1), MdSrcList(TRUE, 3, 1),
     Inner("BlockQuote", <<MdSrcParagraph("quoted")>>)}
    \cup {MdSrcList(FALSE, 0, n) : n \in 1..MaxItems}
MarkdownTree(nodes) == Inner("Document", nodes)

\* Plain text: the pieces of the input
PlainTextConstructs == {Leaf("Text", <<"intro">>), Leaf("Text", <<"\n">>), Leaf("Text", <<" ">>)}
PlainTextInput(nodes) == Flatten([i \in 1..Len(nodes) |-> nodes[i].text])

Constructs(format) ==
    CASE format = "PlainText" -> PlainTextConstructs
      [] format = "Markdown" -> MarkdownConstructs
      [] format = "Djot" -> DjotConstructs
      [] format = "OrgMode" -> OrgConstructs
      [] format = "ReStructuredText" -> RstConstructs
      [] format = "Typst" -> TypstConstructs

IsListNode(n) == n.kind \in {"List", "BulletList", "EnumeratedList"}
\* What a source cannot hold: two paragraph breaks in a row, a list right
\* after a list of its kind (the library reads them as one), a title deeper
\* than one level below the title before it
CanFollow(nodes, n) ==
    /\ (nodes # <<>> /\ n.kind = "Parbreak") => nodes[Len(nodes)].kind # "Parbreak"
    /\ (nodes # <<>> /\ IsListNode(n)) =>
          ~(/\ nodes[Len(nodes)].kind = n.kind
            /\ nodes[Len(nodes)].ordered = n.ordered
            /\ nodes[Len(nodes)].attr = n.attr)
    /\ n.kind = "Title" =>
          LET ts == {j \in 1..Len(nodes) : nodes[j].kind = "Title"} IN
          n.level <= 1 + (IF ts = {} THEN 0
                          ELSE nodes[CHOOSE j \in ts : \A k \in ts : k <= j].level)

\* Parser::parse of the handler registered for a format
parse(format, nodes) ==
    CASE format = "PlainText" -> PlainTextParse(PlainTextInput(nodes))
      [] format = "Markdown" -> MarkdownParse(MarkdownTree(nodes))
      [] format = "Djot" -> DjotParse(DjotTree(nodes))
      [] format = "OrgMode" -> OrgModeParse(OrgTree(nodes))
      [] format = "ReStructuredText" -> RstParse(RstRejects(nodes), RstTree(nodes))
      [] format = "Typst" -> TypstParse(TypstTree(nodes))

NoSource(format) == [format |-> format, nodes |-> <<>>]
NotParsed == [parsed |-> FALSE, ok |-> FALSE, err |-> NoError, content |-> <<>>]

InitParse ==
    /\ handlers = {}
    /\ call = NoCall
    /\ calls = <<>>
    /\ result = Ok(NoText)
    /\ src \in {NoSource(format) : format \in Handlers}
    /\ doc = NotParsed
    /\ out = NoOutput

\* One more construct is written to the source.
AppendNode(n) ==
    /\ ~doc.parsed
    /\ Len(src.nodes) < MaxNodes
    /\ n \in Constructs(src.format)
    /\ CanFollow(src.nodes, n)
    /\ src' = [src EXCEPT !.nodes = Append(@, n)]
    /\ UNCHANGED <<regVars, doc, out>>

\* handler.parse(input, &config)
Parse ==
    LET r == parse(src.format, src.nodes) IN
    /\ ~doc.parsed
    /\ doc' = [parsed |-> TRUE, ok |-> r.ok, err |-> r.err, content |-> r.content]
    /\ UNCHANGED <<regVars, src, out>>

\* handler.render(&doc, &config) with the handler that parsed it
RenderParsed(build) ==
    LET r == render(src.format, Document(src.format, doc.content), build) IN
    /\ doc.parsed /\ doc.ok
    /\ ~out.done
    /\ out' = [done |-> TRUE, format |-> src.format, build |-> build, ok |-> r.ok,
               text |-> r.text]
    /\ UNCHANGED <<regVars, src, doc>>

\* The caller starts over with a new source.
NewSource(format) ==
    /\ doc.parsed
    /\ src' = NoSource(format)
    /\ doc' = NotParsed
    /\ out' = NoOutput
    /\ UNCHANGED regVars

NextParse ==
    \/ \E format \in Handlers : \E n \in Constructs(format) : AppendNode(n)
    \/ Parse
    \/ \E build \in Builds : RenderParsed(build)
    \/ \E format \in Handlers : NewSource(format)

SpecParse == InitParse /\ [][NextParse]_vars

\* Whether the concrete-syntax layer rejected the source or marked a syntax
\* error in it
SyntaxErrorReported ==
    \/ src.format = "ReStructuredText" /\ RstRejects(src.nodes)
    \/ src.format = "Typst" /\ HasErrorNode(TypstTree(src.nodes))

\* C3: parsing fails closed in every adapter: when the concrete-syntax layer
\* rejects the input or reports a syntax error for it, parse returns a
\* ParseError and no tree, not Ok with what it could recover.
C3_ParseFailsClosed ==
    (doc.parsed /\ SyntaxErrorReported)
        => (~doc.ok /\ doc.err.kind = "ParseError" /\ doc.content = <<>>)

\* The Typst adapter returns Ok with the text of the error node as a paragraph.
C3_Divergence ==
    /\ src.format = "Typst" /\ src.nodes = <<TypSrcError>>
    /\ doc.parsed /\ doc.ok
    /\ doc.content = <<Paragraph(<<Text(<<"*/">>)>>)>>

\* The kind of block a source construct is read as; "" for none
ConstructKind(n) ==
    CASE n.kind \in {"Text", "Error"} -> IF Trim(n.text) = <<>> THEN "" ELSE "Paragraph"
      [] n.kind = "Paragraph" -> "Paragraph"
      [] n.kind \in {"Heading", "Headline", "Title"} -> "Heading"
      [] n.kind \in {"List", "BulletList", "EnumeratedList", "ListItem", "EnumItem"} -> "List"
      [] n.kind \in {"ThematicBreak", "Rule", "Transition"} -> "ThematicBreak"
      [] n.kind \in {"BlockQuote", "Blockquote"} -> "BlockQuote"
      [] n.kind = "Table" -> "Table"
      [] n.kind = "Raw" -> "CodeBlock"
      [] n.kind = "Equation" -> "MathBlock"
      [] OTHER -> ""

\* A sequence of kinds without "" and without repeats next to each other
RECURSIVE Collapse(_)
Collapse(ks) ==
    IF ks = <<>> THEN <<>>
    ELSE IF Head(ks) = "" THEN Collapse(Tail(ks))
    ELSE LET rest == Collapse(Tail(ks)) IN
         IF rest # <<>> /\ Head(rest) = Head(ks) THEN rest ELSE <<Head(ks)>> \o rest

SourceKinds == Collapse([i \in 1..Len(src.nodes) |-> ConstructKind(src.nodes[i])])
BlockKinds == Collapse([i \in 1..Len(doc.content) |-> doc.content[i].t])

\* C5: the blocks of the content parse returns are in the order of the
\* source constructs they were built from: read in order, the kinds of the
\* blocks are the kinds of the constructs.
C5_ReadingOrder == (doc.parsed /\ doc.ok) => BlockKinds = SourceKinds

\* Typst: the paragraph text before a list item comes after the list.
C5_Divergence ==
    /\ src.format = "Typst"
    /\ src.nodes = <<Leaf("Text", <<"intro">>), TypSrcListItem("a")>>
    /\ doc.parsed /\ doc.ok
    /\ BlockKinds = <<"List", "Paragraph">>

Contains(text, sub) ==
    \E i \in 0..(Len(text) - Len(sub)) : SubSeq(text, i + 1, i + Len(sub)) = sub

HeadingFormats == {"Markdown", "Djot", "OrgMode", "ReStructuredText", "Typst"}

\* The source of a level-2 heading titled "Title" in a format
Level2Source(format) ==
    CASE format = "Markdown" -> <<MdSrcHeading(2)>>
      [] format = "Djot" -> <<DjSrcHeading(2)>>
      [] format = "OrgMode" -> <<OrgSrcHeadline(2)>>
      [] format = "ReStructuredText" -> <<RstSrcTitle(1, "Top"), RstSrcTitle(2, "Title")>>
      [] format = "Typst" -> <<TypSrcHeading(2)>>

\* The level-2 marker of a format as it stands in a rendered text
Level2Marker(format) ==
    CASE format \in {"Markdown", "Djot"} -> <<"#", "#", " ">>
      [] format = "OrgMode" -> <<"*", "*", " ">>
      [] format = "ReStructuredText" -> <<"\n", "-">>
      [] format = "Typst" -> <<"=", "=", " ">>

\* C8: parsing a format's source for a level-2 heading titled "Title" and
\* rendering the result with the same format gives a text that contains
\* "Title" and the format's level-2 marker.
C8_HeadingRoundTrip ==
    (out.done /\ src.format \in HeadingFormats /\ src.nodes = Level2Source(src.format))
        => (/\ out.ok
            /\ Contains(out.text, <<"Title">>)
            /\ Contains(out.text, Level2Marker(src.format)))

\* reStructuredText: the title of the inner section comes back underlined
\* with "=", the level-1 marker.
C8_Divergence ==
    /\ out.done /\ src.format = "ReStructuredText"
    /\ src.nodes = Level2Source("ReStructuredText")
    /\ Contains(out.text, <<"Title", "\n", "=">>)
    /\ ~Contains(out.text, <<"-">>)

\* C9: every Heading in a Document that parse returns has a level from 1 to 6.
C9_HeadingLevelInRange ==
    (doc.parsed /\ doc.ok)
        => \A i \in 1..Len(doc.content) :
              doc.content[i].t = "Heading"
                  => (1 <= doc.content[i].level /\ doc.content[i].level <= 6)

\* Typst: a heading of more than six "=" gets their number as its level.
C9_Divergence ==
    /\ src.format = "Typst" /\ src.nodes = <<TypSrcHeading(DeepLevel)>>
    /\ doc.parsed /\ doc.ok
    /\ doc.content[1].t = "Heading" /\ doc.content[1].level = DeepLevel

\* The lengths of the maximal runs of consecutive values TRUE
RECURSIVE RunsFrom(_, _)
RunsFrom(flags, n) ==
    IF flags = <<>> THEN (IF n > 0 THEN <<n>> ELSE <<>>)
    ELSE IF Head(flags) THEN RunsFrom(Tail(flags), n + 1)
    ELSE (IF n > 0 THEN <<n>> ELSE <<>>) \o RunsFrom(Tail(flags), 0)

IsBulletList(n) ==
    \/ n.kind = "BulletList"
    \/ n.kind = "List" /\ ~n.ordered /\ n.attr \in {"", "Unordered"}

\* The sizes of the runs of bullet items of the source, in order.  Typst
\* gives the items one by one (a paragraph break does not end a list), the
\* other libraries give each run as one list node.
BulletRunSizes ==
    IF src.format = "Typst"
    THEN LET items == SelectSeq(src.nodes, LAMBDA n : n.kind # "Parbreak") IN
         RunsFrom([i \in 1..Len(items) |-> items[i].kind = "ListItem"], 0)
    ELSE LET lists == SelectSeq(src.nodes, IsBulletList) IN
         [i \in 1..Len(lists) |-> Len(lists[i].children)]

\* The sizes of the Bullet lists of the parsed content, in order
BulletListSizes ==
    LET lists == SelectSeq(doc.content, LAMBDA b : b.t = "List" /\ b.kind = "Bullet") IN
    [i \in 1..Len(lists) |-> Len(lists[i].items)]

\* C10: every maximal run of n consecutive bullet items of the source parses
\* to one List of kind Bullet with those n items: none is dropped and the run
\* is not merged into a list of another kind.
C10_BulletRuns == (doc.parsed /\ doc.ok) => BulletListSizes = BulletRunSizes

\* Typst: a bullet item after an enum item joins the Ordered list.
C10_Divergence ==
    /\ src.format = "Typst" /\ src.nodes = <<TypSrcEnumItem("one"), TypSrcListItem("a")>>
    /\ doc.parsed /\ doc.ok
    /\ Len(doc.content) = 1
    /\ doc.content[1].kind = "Ordered" /\ Len(doc.content[1].items) = 2

\* Whether a block is, or holds at any depth, a Paragraph without content
RECURSIVE HasEmptyParagraph(_)
AnyEmptyParagraph(bs) == \E i \in 1..Len(bs) : HasEmptyParagraph(bs[i])
HasEmptyParagraph(b) ==
    \/ b.t = "Paragraph" /\ b.content = <<>>
    \/ AnyEmptyParagraph(b.blocks)
    \/ \E i \in 1..Len(b.items) : AnyEmptyParagraph(b.items[i].content)
    \/ \E r \in 1..Len(b.body) : \E c \in 1..Len(b.body[r].cells) :
          AnyEmptyParagraph(b.body[r].cells[c].content)
    \/ IsSome(b.header) /\ \E c \in 1..Len(Unwrap(b.header).cells) :
          AnyEmptyParagraph(Unwrap(b.header).cells[c].content)

\* C11: no Document that parse returns holds a Paragraph with empty content,
\* at top level or inside a block quote, list item or other container: a
\* paragraph whose inline content came out empty gives no block.
C11_NoEmptyParagraph == (doc.parsed /\ doc.ok) => ~AnyEmptyParagraph(doc.content)

\* Djot: the text of "_hi_" goes to the frame of the emphasis, which gives no
\* inline, and the paragraph is kept with no content.
C11_Divergence ==
    /\ src.format = "Djot" /\ src.nodes = <<DjSrcEmphasized>>
    /\ doc.parsed /\ doc.ok
    /\ doc.content = <<Paragraph(<<>>)>>

\* C13: a Djot table parses to a Table with header = None and with one
\* TableRow in body for every row of the source, in source order.
C13_DjotTableRows ==
    (doc.parsed /\ doc.ok /\ src.format = "Djot") =>
        LET sources == SelectSeq(src.nodes, LAMBDA n : n.kind = "Table")
            tables == SelectSeq(doc.content, LAMBDA b : b.t = "Table")
        IN /\ Len(tables) = Len(sources)
           /\ \A i \in 1..Len(tables) :
                 /\ tables[i].header = None
                 /\ Len(tables[i].body) = Len(sources[i].children)

\* Djot: the rows of the table are lost, body is empty.
C13_Divergence ==
    /\ src.format = "Djot" /\ src.nodes = <<DjSrcTable(MaxItems)>>
    /\ doc.parsed /\ doc.ok
    /\ doc.content = <<Table(None, <<>>, None)>>

(***************************************************************************)
(* Org-mode tables: a table is written row by row (a data row, a data row  *)
(* without cells, or a rule) and parsed.                                   *)
(***************************************************************************)
MaxRows == 4
RowKinds == {"data", "empty", "rule"}
RowTags == <<"r1", "r2", "r3", "r4", "r5", "r6">>

OrgSrcCell(w) == [Inner("TableCell", <<Leaf("Text", <<w>>)>>) EXCEPT !.attr = "Body"]
\* Row i of a table, of a kind; orgize names the rows before the first rule
\* Header, the first rule HeaderRule, the rows and rules after it Body and
\* BodyRule
OrgSrcRow(kinds, i) ==
    LET ruleBefore == \E j \in 1..(i - 1) : kinds[j] = "rule"
        ruleAfter == \E j \in (i + 1)..Len(kinds) : kinds[j] = "rule"
    IN CASE kinds[i] = "rule" ->
              [Inner("TableRow", <<>>)
                  EXCEPT !.attr = IF ruleBefore THEN "BodyRule" ELSE "HeaderRule"]
         [] kinds[i] = "empty" ->
              [Inner("TableRow", <<>>) EXCEPT !.attr = "Body"]
         [] kinds[i] = "data" ->
              [Inner("TableRow", <<OrgSrcCell(RowTags[i]), OrgSrcCell("x")>>)
                  EXCEPT !.attr = IF ~ruleBefore /\ ruleAfter THEN "Header" ELSE "Body"]
OrgSrcTable(kinds) == Inner("Table", [i \in 1..Len(kinds) |-> OrgSrcRow(kinds, i)])

\* The kinds of the rows of a table node
OrgRowKinds(table) ==
    [i \in 1..Len(table.children) |->
        IF table.children[i].attr \in {"HeaderRule", "BodyRule"} THEN "rule"
        ELSE IF table.children[i].children = <<>> THEN "empty" ELSE "data"]

InitOrgTable ==
    /\ handlers = {}
    /\ call = NoCall
    /\ calls = <<>>
    /\ result = Ok(NoText)
    /\ src \in {[format |-> "OrgMode", nodes |-> <<OrgSrcTable(<<k>>)>>] : k \in RowKinds}
    /\ doc = NotParsed
    /\ out = NoOutput

\* One more row is written to the table.
AppendRow(kind) ==
    /\ ~doc.parsed
    /\ Len(src.nodes[1].children) < MaxRows
    /\ src' = [src EXCEPT !.nodes = <<OrgSrcTable(Append(OrgRowKinds(src.nodes[1]), kind))>>]
    /\ UNCHANGED <<regVars, doc, out>>

\* The caller starts a new table.
NewTable(kind) ==
    /\ doc.parsed
    /\ src' = [src EXCEPT !.nodes = <<OrgSrcTable(<<kind>>)>>]
    /\ doc' = NotParsed
    /\ UNCHANGED <<regVars, out>>

NextOrgTable ==
    \/ \E kind \in RowKinds : AppendRow(kind)
    \/ Parse
    \/ \E kind \in RowKinds : NewTable(kind)

SpecOrgTable == InitOrgTable /\ [][NextOrgTable]_vars

\* The tag of a parsed row: the first piece of the text of its first cell
RowTag(row) == row.cells[1].content[1].content[1].text[1]
\* The tags of the data rows of the source that have cells, in order
DataRowTags ==
    LET kinds == OrgRowKinds(src.nodes[1])
        idx == SelectSeq([i \in 1..Len(kinds) |-> i], LAMBDA i : kinds[i] = "data")
    IN [k \in 1..Len(idx) |-> RowTags[idx[k]]]
\* Whether the first data row that has cells has no rule before it
HeaderExpected ==
    LET kinds == OrgRowKinds(src.nodes[1]) IN
    \E i \in 1..Len(kinds) :
        /\ kinds[i] = "data"
        /\ \A j \in 1..(i - 1) : kinds[j] = "empty"

\* C12: in a parsed Org table the first data row with cells, when no rule
\* comes before it, is the header and every other data row with cells is in
\* body, in source order; rules give no row; with a rule before the first
\* data row header is None and all data rows are in body.  So the header (if
\* any) followed by the body is the sequence of the data rows with cells.
C12_OrgTableRows ==
    (doc.parsed /\ doc.ok) =>
        /\ Len(doc.content) = 1 /\ doc.content[1].t = "Table"
        /\ LET table == doc.content[1]
               body == [i \in 1..Len(table.body) |-> RowTag(table.body[i])]
               rows == IF IsSome(table.header)
                       THEN <<RowTag(Unwrap(table.header))>> \o body ELSE body
           IN /\ rows = DataRowTags
              /\ IsSome(table.header) <=> HeaderExpected
              /\ (IF IsSome(table.header) THEN 1 ELSE 0) + Len(table.body)
                    = Len(DataRowTags)

\* A header row, a rule, a row without cells and a body row have been parsed.
C12_Witness ==
    /\ doc.parsed /\ doc.ok
    /\ OrgRowKinds(src.nodes[1]) = <<"data", "rule", "empty", "data">>
    /\ IsSome(doc.content[1].header)
    /\ Len(doc.content[1].body) = 1

(***************************************************************************)
(* Counting: the caller builds a Document block by block and asks for its  *)
(* word_count and char_count.                                              *)
(***************************************************************************)
Words == Text(<<"one", " ", " ", "two", "\n">>)
CountInlines ==
    {Words, Text(<<"x">>), Text(<<" ">>), Emphasis(<<Words, Code(<<"c">>)>>),
     Link(<<"u">>, None, <<Words>>)}
CountBlocks ==
    {Paragraph(<<>>), Paragraph(<<Words, Text(<<"x">>)>>), Heading(1, <<Words>>),
     CodeBlock(None, <<"let", " ", "x">>), ThematicBreak,
     BlockQuote(<<Paragraph(<<Words>>), Paragraph(<<Text(<<"x">>)>>)>>, None),
     List("Bullet", <<ListItem(<<Paragraph(<<Words>>)>>, None),
                      ListItem(<<Paragraph(<<Text(<<"x">>)>>)>>, None)>>, None),
     Container(<<Paragraph(<<Words>>), CodeBlock(None, <<"x">>)>>),
     Figure(<<Paragraph(<<Text(<<"x">>)>>)>>, None),
     Figure(<<Paragraph(<<Text(<<"x">>)>>)>>, Some(<<Words>>))}
    \cup {Paragraph(<<x>>) : x \in CountInlines}

\* doc.word_count() and doc.char_count()
Count ==
    /\ ~out.done
    /\ out' = [done |-> TRUE, words |-> Document_word_count(doc),
               chars |-> Document_char_count(doc)]
    /\ UNCHANGED <<regVars, src, doc>>

NextCount ==
    \/ \E b \in CountBlocks : AppendBlock(b)
    \/ Count
    \/ NewDocument

SpecCount == InitRender /\ [][NextCount]_vars

\* The number of maximal runs of pieces that are not white space, counted
\* from the left
RECURSIVE Tokens(_, _)
Tokens(s, inToken) ==
    IF s = <<>> THEN 0
    ELSE IF Head(s) \in Whitespace THEN Tokens(Tail(s), FALSE)
    ELSE (IF inToken THEN 0 ELSE 1) + Tokens(Tail(s), TRUE)

\* The number of characters of the pieces of a string
Characters(s) == Sum([k \in 1..Len(s) |-> Len(s[k])])

\* Folding a count over a sequence, from the left
RECURSIVE Fold(_, _, _)
Fold(count(_), xs, acc) ==
    IF xs = <<>> THEN acc ELSE Fold(count, Tail(xs), acc + count(Head(xs)))

\* C14: the counts are additive folds: the document's count is the sum of
\* its blocks' counts, a Paragraph's is the sum of its inlines' counts, a Text
\* counts its white-space-delimited tokens (its characters), and the empty
\* document counts 0 words and 0 characters.
C14_CountsAreFolds ==
    out.done =>
        /\ out.words = Fold(Block_word_count, doc.content, 0)
        /\ out.chars = Fold(Block_char_count, doc.content, 0)
        /\ (doc.content = <<>> => (out.words = 0 /\ out.chars = 0))
        /\ \A i \in 1..Len(doc.content) :
              LET b == doc.content[i] IN
              b.t = "Paragraph" =>
                  /\ Block_word_count(b) = Fold(Inline_word_count, b.content, 0)
                  /\ Block_char_count(b) = Fold(Inline_char_count, b.content, 0)
                  /\ \A j \in 1..Len(b.content) :
                        b.content[j].t = "Text" =>
                            /\ Inline_word_count(b.content[j]) = Tokens(b.content[j].text, FALSE)
                            /\ Inline_char_count(b.content[j]) = Characters(b.content[j].text)

\* A document of a two-word paragraph and a heading has been counted.
C14_Witness ==
    /\ out.done
    /\ doc.content = <<Paragraph(<<Words, Text(<<"x">>)>>), Heading(1, <<Words>>)>>
    /\ out.words = 5 /\ out.chars = 19

\* The blocks that hold blocks
ChildBlocks(b) ==
    CASE b.t \in {"BlockQuote", "Container", "Figure"} -> b.blocks
      [] b.t = "List" -> ItemBlocks(b.items)
      [] OTHER -> <<>>

\* C15: for BlockQuote, List, Container and Figure, word_count and char_count
\* are each the sum of that count over the child blocks, and so no document
\* has more words than characters.
C15_CountsRecurseAlike ==
    out.done =>
        /\ \A i \in 1..Len(doc.content) :
              LET b == doc.content[i] IN
              b.t \in {"BlockQuote", "List", "Container", "Figure"} =>
                  /\ Block_word_count(b) = Fold(Block_word_count, ChildBlocks(b), 0)
                  /\ Block_char_count(b) = Fold(Block_char_count, ChildBlocks(b), 0)
        /\ out.words <= out.chars

\* A Figure that holds the paragraph "x" counts one word and no character.
C15_Divergence ==
    /\ out.done
    /\ doc.content = <<Figure(<<Paragraph(<<Text(<<"x">>)>>)>>, None)>>
    /\ out.words = 1 /\ out.chars = 0

(***************************************************************************)
(* Plain text: the caller types an input character by character, parses    *)
(* it, renders the Document and parses the rendered text again.            *)
(***************************************************************************)
MaxInput == 6
InputChars == {"a", " ", "\n"}

InitPlainText ==
    /\ handlers = {}
    /\ call = NoCall
    /\ calls = <<>>
    /\ result = Ok(NoText)
    /\ src = NoSource("PlainText")
    /\ doc = NotParsed
    /\ out = NoOutput

\* One more character of the input.
TypeChar(c) ==
    /\ ~doc.parsed
    /\ Len(src.nodes) < MaxInput
    /\ src' = [src EXCEPT !.nodes = Append(@, Leaf("Text", <<c>>))]
    /\ UNCHANGED <<regVars, doc, out>>

\* handler.parse(&output, &config) on the text that render returned
Reparse ==
    /\ out.done /\ out.ok
    /\ "again" \notin DOMAIN out
    /\ out' = [done |-> TRUE, format |-> out.format, build |-> out.build, ok |-> TRUE,
               text |-> out.text, again |-> PlainTextParse(out.text).content]
    /\ UNCHANGED <<regVars, src, doc>>

NextPlainText ==
    \/ \E c \in InputChars : TypeChar(c)
    \/ Parse
    \/ \E build \in Builds : RenderParsed(build)
    \/ Reparse
    \/ NewSource("PlainText")

SpecPlainText == InitPlainText /\ [][NextPlainText]_vars

\* Whether a text is made of paragraphs that are not empty, have no white
\* space at either end and hold no blank line, joined by exactly "\n\n"
IsNormalText(x) ==
    \/ x = <<>>
    \/ /\ x[1] \notin Whitespace /\ x[Len(x)] \notin Whitespace
       /\ \A i \in 1..(Len(x) - 1) :
             (x[i] = "\n" /\ x[i + 1] = "\n") =>
                 /\ x[i - 1] \notin Whitespace
                 /\ x[i + 2] \notin Whitespace

\* C16: for plain text, render(parse(x)) = x when x is made of non-empty
\* paragraphs without white space at their ends and without blank lines,
\* joined by exactly "\n\n"; and for every x, parse(render(parse(x))) has
\* the paragraphs of parse(x).
C16_PlainTextRoundTrip ==
    /\ (out.done /\ IsNormalText(PlainTextInput(src.nodes)))
          => out.text = PlainTextInput(src.nodes)
    /\ (out.done /\ "again" \in DOMAIN out) => out.again = doc.content

\* The text "a\n\na" came back as it was, with its two paragraphs.
C16_Witness ==
    /\ out.done /\ "again" \in DOMAIN out
    /\ PlainTextInput(src.nodes) = <<"a", "\n", "\n", "a">>
    /\ out.text = <<"a", "\n", "\n", "a">>
    /\ Len(out.again) = 2

(***************************************************************************)
(* Concurrency: several threads share one FormatRegistry (&self) and call  *)
(* convert on it, each call running statement by statement between the    *)
(* statements of the others.  The handlers are unit structs, so what parse *)
(* and render answer depends on their arguments alone.                     *)
(***************************************************************************)
Threads == {1, 2}
SharedFormats == {"Markdown", "ReStructuredText"}

Idle == [pc |-> "idle", input |-> NoText, from |-> "none", to |-> "none"]

\* What the handler of a format answers to parse for an input: the last
\* input is one that rst_parser rejects
ParseAnswer(format, input) ==
    IF format = "ReStructuredText" /\ input.id = MaxTexts THEN ParseError(1) ELSE NoError

InitShared ==
    /\ handlers = {}
    /\ call = [t \in Threads |-> Idle]
    /\ calls = <<>>
    /\ result = [t \in Threads |-> Ok(NoText)]
    /\ InitDoc

\* A registry in which register takes &self and runs beside the calls.
RegisterShared(format) ==
    /\ handlers' = handlers \cup {format}
    /\ UNCHANGED <<call, calls, result, docVars>>

\* FormatRegistry::register(&mut self, ..): the exclusive borrow means that
\* no call on the registry is in progress
RegisterExclusive(format) ==
    /\ \A t \in Threads : call[t].pc = "idle"
    /\ handlers' = handlers \cup {format}
    /\ UNCHANGED <<call, calls, result, docVars>>

\* A thread calls registry.convert(input, from, to, ..)
CallConvert(t, input, from, to) ==
    /\ call[t].pc = "idle"
    /\ call' = [call EXCEPT ![t] = [pc |-> "check", input |-> input, from |-> from, to |-> to]]
    /\ UNCHANGED <<handlers, calls, result, docVars>>

Finish(t, r) ==
    /\ call' = [call EXCEPT ![t].pc = "done"]
    /\ result' = [result EXCEPT ![t] = r]

\* if from == to { return Ok(input.to_string()); }
CheckSame(t) ==
    /\ call[t].pc = "check"
    /\ IF call[t].from = call[t].to
       THEN Finish(t, Ok(call[t].input))
       ELSE call' = [call EXCEPT ![t].pc = "from"] /\ UNCHANGED result
    /\ UNCHANGED <<handlers, calls, docVars>>

\* let from_handler = self.get(from).ok_or_else(..)?;
GetFrom(t) ==
    /\ call[t].pc = "from"
    /\ IF get(handlers, call[t].from) = None
       THEN Finish(t, Err(UnsupportedFeature(call[t].from, "parsing")))
       ELSE call' = [call EXCEPT ![t].pc = "to"] /\ UNCHANGED result
    /\ UNCHANGED <<handlers, calls, docVars>>

\* let to_handler = self.get(to).ok_or_else(..)?;
GetTo(t) ==
    /\ call[t].pc = "to"
    /\ IF get(handlers, call[t].to) = None
       THEN Finish(t, Err(UnsupportedFeature(call[t].to, "rendering")))
       ELSE call' = [call EXCEPT ![t].pc = "parse"] /\ UNCHANGED result
    /\ UNCHANGED <<handlers, calls, docVars>>

\* let doc = from_handler.parse(input, parse_config)?;
ParseShared(t) ==
    /\ call[t].pc = "parse"
    /\ IF ParseAnswer(call[t].from, call[t].input) # NoError
       THEN Finish(t, Err(ParseAnswer(call[t].from, call[t].input)))
       ELSE call' = [call EXCEPT ![t].pc = "render"] /\ UNCHANGED result
    /\ UNCHANGED <<handlers, calls, docVars>>

\* to_handler.render(&doc, render_config)
RenderShared(t) ==
    /\ call[t].pc = "render"
    /\ Finish(t, Ok(RenderedText(call[t].to,
                                 [source_format |-> call[t].from, id |-> call[t].input.id])))
    /\ UNCHANGED <<handlers, calls, docVars>>

\* The caller takes the returned value.
ReturnShared(t) ==
    /\ call[t].pc = "done"
    /\ call' = [call EXCEPT ![t] = Idle]
    /\ result' = [result EXCEPT ![t] = Ok(NoText)]
    /\ UNCHANGED <<handlers, calls, docVars>>

NextShared ==
    \/ \E format \in SharedFormats : RegisterExclusive(format)
    \/ \E t \in Threads, input \in Texts, from \in SharedFormats, to \in SharedFormats :
          CallConvert(t, input, from, to)
    \/ \E t \in Threads : CheckSame(t)
    \/ \E t \in Threads : GetFrom(t)
    \/ \E t \in Threads : GetTo(t)
    \/ \E t \in Threads : ParseShared(t)
    \/ \E t \in Threads : RenderShared(t)
    \/ \E t \in Threads : ReturnShared(t)

SpecShared == InitShared /\ [][NextShared]_vars

\* What the call of a thread returns when it runs alone on the registry
Alone(t) ==
    convert(handlers, call[t].input, call[t].from, call[t].to,
            ParseAnswer(call[t].from, call[t].input), NoError).result

\* C17: calls that share a registry and its handlers do not interfere: under
\* every interleaving a finished call holds the result it gives when run
\* alone, and the registry's map changes only in a step in which no call is
\* in progress (a register).
C17_NoInterference ==
    /\ [](\A t \in Threads : call[t].pc = "done" => result[t] = Alone(t))
    /\ [][handlers' # handlers => \A t \in Threads : call[t].pc = "idle"]_vars

\* Two calls have finished side by side, one converted and one refused.
C17_Witness ==
    /\ call[1].pc = "done" /\ call[2].pc = "done"
    /\ handlers = SharedFormats
    /\ call[1].from # call[1].to /\ result[1].ok
    /\ call[2].from # call[2].to /\ ~result[2].ok

(***************************************************************************)
(* ffi.rs: formatrix_detect_format.  A content is a null pointer, bytes    *)
(* that are not UTF-8, or a string kept as a sequence of pieces: the       *)
(* markers the function looks for, white space and other text.             *)
(***************************************************************************)
MaxPieces == 3
Markers == {"#+", "= ", ":toc:", "# ", Fence, "{.", "[^", ".. ", "::", "#let", "#{"}
ContentPieces == Markers \cup {"x", " ", "\n"}

NullContent == [ptr |-> "null", pieces |-> <<>>]
InvalidUtf8 == [ptr |-> "bytes", pieces |-> <<>>]
StrContent(pieces) == [ptr |-> "str", pieces |-> pieces]

\* str::starts_with and str::contains, for a pattern of one piece or of two
starts_with(s, pat) == Len(s) >= Len(pat) /\ SubSeq(s, 1, Len(pat)) = pat
contains(s, pat) ==
    \E i \in 0..(Len(s) - Len(pat)) : SubSeq(s, i + 1, i + Len(pat)) = pat

\* A detection that looks for the Markdown markers before the AsciiDoc ones.
detect_markdown_first(content) ==
    IF content.ptr # "str" THEN "PlainText"
    ELSE LET trimmed == Trim(content.pieces) IN
         IF starts_with(trimmed, <<"#+">>) \/ contains(trimmed, <<"\n", "#+">>) THEN "OrgMode"
         ELSE IF starts_with(trimmed, <<"# ">>) \/ contains(trimmed, <<Fence>>) THEN "Markdown"
         ELSE IF starts_with(trimmed, <<"= ">>) \/ starts_with(trimmed, <<":toc:">>)
         THEN "AsciiDoc"
         ELSE IF contains(trimmed, <<"{.">>) \/ contains(trimmed, <<"[^">>) THEN "Djot"
         ELSE IF contains(trimmed, <<".. ">>) /\ contains(trimmed, <<"::">>)
         THEN "ReStructuredText"
         ELSE IF contains(trimmed, <<"#let">>) \/ contains(trimmed, <<"#{">>) THEN "Typst"
         ELSE "PlainText"

\* formatrix_detect_format
formatrix_detect_format(content) ==
    IF content.ptr = "null" THEN "PlainText"
    ELSE IF content.ptr = "bytes" THEN "PlainText"
    ELSE LET trimmed == Trim(content.pieces) IN
         IF starts_with(trimmed, <<"#+">>) \/ contains(trimmed, <<"\n", "#+">>) THEN "OrgMode"
         ELSE IF starts_with(trimmed, <<"= ">>) \/ starts_with(trimmed, <<":toc:">>)
         THEN "AsciiDoc"
         ELSE IF starts_with(trimmed, <<"# ">>) \/ contains(trimmed, <<Fence>>) THEN "Markdown"
         ELSE IF contains(trimmed, <<"{.">>) \/ contains(trimmed, <<"[^">>) THEN "Djot"
         ELSE IF contains(trimmed, <<".. ">>) /\ contains(trimmed, <<"::">>)
         THEN "ReStructuredText"
         ELSE IF contains(trimmed, <<"#let">>) \/ contains(trimmed, <<"#{">>) THEN "Typst"
         ELSE "PlainText"

InitDetect ==
    /\ handlers = {}
    /\ call = NoCall
    /\ calls = <<>>
    /\ result = Ok(NoText)
    /\ src \in {NullContent, InvalidUtf8, StrContent(<<>>)}
    /\ doc = NotParsed
    /\ out = NoOutput

\* The caller writes one more piece of the content.
WritePiece(piece) ==
    /\ ~out.done
    /\ src.ptr = "str"
    /\ Len(src.pieces) < MaxPieces
    /\ src' = [src EXCEPT !.pieces = Append(@, piece)]
    /\ UNCHANGED <<regVars, doc, out>>

\* formatrix_detect_format(content)
Detect ==
    /\ ~out.done
    /\ out' = [done |-> TRUE, format |-> formatrix_detect_format(src)]
    /\ UNCHANGED <<regVars, src, doc>>

\* The caller starts over with another content.
NewContent(content) ==
    /\ out.done
    /\ src' = content
    /\ out' = NoOutput
    /\ UNCHANGED <<regVars, doc>>

NextDetect ==
    \/ \E piece \in ContentPieces : WritePiece(piece)
    \/ Detect
    \/ \E content \in {NullContent, InvalidUtf8, StrContent(<<>>)} : NewContent(content)

SpecDetect == InitDetect /\ [][NextDetect]_vars

\* The order in which the formats are tried
DetectOrder == <<"OrgMode", "AsciiDoc", "Markdown", "Djot", "ReStructuredText", "Typst">>

\* Whether the text x, without the white space at its ends, shows the
\* markers of a format: at its start (AtStart) or anywhere (Has)
Shows(format, text) ==
    LET x == Trim(text)
        AtStart(m) == x # <<>> /\ x[1] = m
        Has(m) == \E i \in 1..Len(x) : x[i] = m
    IN CASE format = "OrgMode" ->
              AtStart("#+") \/ \E i \in 2..Len(x) : x[i - 1] = "\n" /\ x[i] = "#+"
         [] format = "AsciiDoc" -> AtStart("= ") \/ AtStart(":toc:")
         [] format = "Markdown" -> AtStart("# ") \/ Has(Fence)
         [] format = "Djot" -> Has("{.") \/ Has("[^")
         [] format = "ReStructuredText" -> Has(".. ") /\ Has("::")
         [] format = "Typst" -> Has("#let") \/ Has("#{")

\* C18: formatrix_detect_format answers the first format, in the order
\* Org-mode, AsciiDoc, Markdown, Djot, RST, Typst, whose markers the trimmed
\* content shows, and PlainText when it shows none or when the argument is
\* null or not UTF-8.
C18_FirstMatchWins ==
    out.done =>
        LET shown == {k \in 1..Len(DetectOrder) : Shows(DetectOrder[k], src.pieces)} IN
        IF src.ptr # "str" \/ shown = {}
        THEN out.format = "PlainText"
        ELSE out.format = DetectOrder[CHOOSE k \in shown : \A j \in shown : k <= j]

\* A content with the markers of AsciiDoc, Markdown and Djot was detected
\* as AsciiDoc.
C18_Witness ==
    /\ out.done
    /\ src = StrContent(<<"= ", Fence, "[^">>)
    /\ out.format = "AsciiDoc"

(***************************************************************************)
(* ffi.rs: the C boundary.  A pointer is 0 (null) or the number of an      *)
(* allocation; the heap holds the allocations that were handed out and not *)
(* freed, and remembers a free of something that is not allocated.         *)
(***************************************************************************)
MaxAllocs == 2
Null == 0

FfiResult ==
    {"Success", "InvalidInput", "ParseError", "RenderError", "UnsupportedFormat",
     "NullPointer", "Utf8Error"}
\* The formats a C caller passes in this model (FfiFormat has all seven)
FfiFormats == {"Markdown", "Djot", "ReStructuredText", "AsciiDoc"}
\* The contents a C caller passes: a null pointer, bytes that are not UTF-8,
\* a text that rst_parser rejects, and a numbered list whose items all have
\* the largest number that CommonMark takes as a list marker
ListContent == StrContent([i \in 1..MaxItems |-> "999999999. a"])
FfiContents == {NullContent, InvalidUtf8, StrContent(<<"??">>), ListContent}

\* The concrete syntax of a content in a format
FfiSource(format, content) ==
    CASE format = "ReStructuredText" ->
           IF content = ListContent THEN <<RstSrcList("EnumeratedList", MaxItems)>>
           ELSE <<RstSrcMalformed>>
      [] format = "Markdown" ->
           IF content = ListContent THEN <<MdSrcList(TRUE, 999999999, MaxItems)>>
           ELSE <<MdSrcParagraph(content.pieces[1])>>
      [] format = "Djot" ->
           IF content = ListContent
           THEN <<DjSrcList("Ordered", [i \in 1..MaxItems |-> DjSrcItem("a")])>>
           ELSE <<DjSrcParagraph(content.pieces[1])>>

EmptyHeap == [next |-> 1, live |-> {}, badFree |-> FALSE]
\* Box::into_raw / CString::into_raw: a new allocation, owned by the caller
\* (val is the Document of a handle; the bytes of a string are not kept)
Alloc(heap, kind, val) ==
    [heap EXCEPT !.next = @ + 1,
                 !.live = @ \cup {[id |-> heap.next, kind |-> kind, val |-> val]}]
\* Box::from_raw / CString::from_raw and drop
Dealloc(heap, ptr, kind) ==
    IF \E o \in heap.live : o.id = ptr /\ o.kind = kind
    THEN [heap EXCEPT !.live = {o \in @ : o.id # ptr}]
    ELSE [heap EXCEPT !.badFree = TRUE]
\* (*handle).doc
Deref(heap, handle) == (CHOOSE o \in heap.live : o.id = handle).val

\* What a call gives back: its code, the heap after it, and what it wrote
\* through its out pointers (wrote = FALSE: they were left alone)
Returned(code, heap) == [code |-> code, heap |-> heap, wrote |-> FALSE, ptr |-> Null, length |-> 0]
Wrote(heap, length) ==
    [code |-> "Success", heap |-> heap, wrote |-> TRUE, ptr |-> heap.next - 1, length |-> length]

\* A formatrix_parse that looks at the format before the pointers.
formatrix_parse_format_first(content, format, out_handle, heap) ==
    IF format \notin Handlers THEN Returned("UnsupportedFormat", heap)
    ELSE IF content.ptr = "null" \/ out_handle = Null THEN Returned("NullPointer", heap)
    ELSE IF content.ptr = "bytes" THEN Returned("Utf8Error", heap)
    ELSE LET r == parse(format, FfiSource(format, content)) IN
         IF ~r.ok THEN Returned("ParseError", heap)
         ELSE Wrote(Alloc(heap, "doc", Document(format, r.content)), 0)

\* formatrix_parse; out_handle is Null or the address of the caller's variable
formatrix_parse(content, format, out_handle, heap) ==
    IF content.ptr = "null" \/ out_handle = Null THEN Returned("NullPointer", heap)
    ELSE IF content.ptr = "bytes" THEN Returned("Utf8Error", heap)
    ELSE IF format \notin Handlers THEN Returned("UnsupportedFormat", heap)
    ELSE LET r == parse(format, FfiSource(format, content)) IN
         IF ~r.ok THEN Returned("ParseError", heap)
         ELSE Wrote(Alloc(heap, "doc", Document(format, r.content)), 0)

\* formatrix_render; a panic of the renderer is the code "Panic"
formatrix_render(handle, format, out_content, out_length, heap, build) ==
    IF handle = Null \/ out_content = Null \/ out_length = Null
    THEN Returned("NullPointer", heap)
    ELSE IF format \notin Handlers THEN Returned("UnsupportedFormat", heap)
    ELSE LET r == render(format, Deref(heap, handle), build) IN
         IF ~r.ok THEN Returned("Panic", heap)
         ELSE IF InRange(r.text, "\\0") THEN Returned("InvalidInput", heap)
         ELSE Wrote(Alloc(heap, "str", <<>>), StrLen(r.text))

\* formatrix_get_title: no parser sets meta.title, so the title is ""
formatrix_get_title(handle, out_title, out_length, heap) ==
    IF handle = Null \/ out_title = Null \/ out_length = Null
    THEN Returned("NullPointer", heap)
    ELSE Wrote(Alloc(heap, "str", <<>>), 0)

\* formatrix_block_count
formatrix_block_count(handle, heap) ==
    IF handle = Null THEN 0 ELSE Len(Deref(heap, handle).content)

\* formatrix_get_format
formatrix_get_format(handle, heap) ==
    IF handle = Null THEN "PlainText" ELSE Deref(heap, handle).source_format

\* formatrix_free_document
formatrix_free_document(handle, heap) ==
    IF handle # Null THEN Dealloc(heap, handle, "doc") ELSE heap

\* formatrix_free_string
formatrix_free_string(str, heap) ==
    IF str # Null THEN Dealloc(heap, str, "str") ELSE heap

\* The value of a call, computed once: the element of a set of one element
TheValue(S) == CHOOSE x \in S : TRUE

\* A formatrix_convert that returns a render failure at once.
formatrix_convert_early_return(content, from_format, to_format, out_content, out_length, heap, build) ==
    IF content.ptr = "null" \/ out_content = Null \/ out_length = Null
    THEN Returned("NullPointer", heap)
    ELSE TheValue({
           IF parsed.code # "Success" THEN Returned(parsed.code, parsed.heap)
           ELSE TheValue({
                  IF rendered.code # "Success" THEN rendered
                  ELSE [rendered EXCEPT
                           !.heap = formatrix_free_document(parsed.ptr, rendered.heap)] :
                  rendered \in {formatrix_render(parsed.ptr, to_format, out_content,
                                                 out_length, parsed.heap, build)}}) :
           parsed \in {formatrix_parse(content, from_format, 1, heap)}})

\* formatrix_convert: parsed is what formatrix_parse returns for the local
\* handle, rendered what formatrix_render returns
formatrix_convert(content, from_format, to_format, out_content, out_length, heap, build) ==
    IF content.ptr = "null" \/ out_content = Null \/ out_length = Null
    THEN Returned("NullPointer", heap)
    ELSE TheValue({
           IF parsed.code # "Success" THEN Returned(parsed.code, parsed.heap)
           ELSE TheValue({
                  [rendered EXCEPT !.heap = formatrix_free_document(parsed.ptr, rendered.heap)] :
                  rendered \in {formatrix_render(parsed.ptr, to_format, out_content,
                                                 out_length, parsed.heap, build)}}) :
           parsed \in {formatrix_parse(content, from_format, 1, heap)}})

\* The pointers of a kind that the caller holds, and the null pointer
Held(kind) == {o.id : o \in {h \in src : h.kind = kind}} \cup {Null}
\* The address of a variable of the caller, or null
OutPointers == {Null, 1}

NoFfiCall ==
    [fn |-> "none", anyNull |-> FALSE, content |-> "null", from |-> "none", to |-> "none",
     code |-> "none", wrote |-> FALSE, allocs |-> 0, same |-> TRUE, value |-> 0]

\* The record of a call that returned r on the heap doc: its arguments (of
\* the content, what the pointer points to), its code, whether it wrote
\* through its out pointers, how many allocations it made, whether it left
\* the heap as it was
FfiCall(fn, anyNull, content, from, to, r) ==
    [fn |-> fn, anyNull |-> anyNull, content |-> content.ptr, from |-> from, to |-> to,
     code |-> r.code, wrote |-> r.wrote, allocs |-> r.heap.next - doc.next,
     same |-> (r.heap = doc), value |-> 0]

\* The call returns: the heap is as the call left it, and the caller holds
\* what was written to its out pointer
ReturnFfi(r, kind) ==
    /\ doc' = r.heap
    /\ src' = IF r.wrote THEN src \cup {[id |-> r.ptr, kind |-> kind]} ELSE src

InitFfi ==
    /\ handlers = {}
    /\ call = NoCall
    /\ calls = <<>>
    /\ result = Ok(NoText)
    /\ src = {}
    /\ doc = EmptyHeap
    /\ out = NoFfiCall

CallParse(content, format, out_handle) ==
    \E r \in {formatrix_parse(content, format, out_handle, doc)} :
    /\ doc.next <= MaxAllocs
    /\ ReturnFfi(r, "doc")
    /\ out' = FfiCall("parse", content.ptr = "null" \/ out_handle = Null, content, format,
                      "none", r)
    /\ UNCHANGED regVars

CallRender(handle, format, out_content, out_length, build) ==
    \E r \in {formatrix_render(handle, format, out_content, out_length, doc, build)} :
    /\ doc.next <= MaxAllocs
    /\ ReturnFfi(r, "str")
    /\ out' = FfiCall("render", handle = Null \/ out_content = Null \/ out_length = Null,
                      NullContent, "none", format, r)
    /\ UNCHANGED regVars

CallGetTitle(handle, out_title, out_length) ==
    \E r \in {formatrix_get_title(handle, out_title, out_length, doc)} :
    /\ doc.next <= MaxAllocs
    /\ ReturnFfi(r, "str")
    /\ out' = FfiCall("get_title", handle = Null \/ out_title = Null \/ out_length = Null,
                      NullContent, "none", "none", r)
    /\ UNCHANGED regVars

CallBlockCount(handle) ==
    /\ out' = [FfiCall("block_count", handle = Null, NullContent, "none", "none",
                       Returned("none", doc))
                  EXCEPT !.value = formatrix_block_count(handle, doc)]
    /\ UNCHANGED <<regVars, src, doc>>

CallGetFormat(handle) ==
    /\ out' = [FfiCall("get_format", handle = Null, NullContent, "none", "none",
                       Returned("none", doc))
                  EXCEPT !.value = formatrix_get_format(handle, doc)]
    /\ UNCHANGED <<regVars, src, doc>>

CallFfiConvert(content, from_format, to_format, out_content, out_length, build) ==
    \E r \in {formatrix_convert(content, from_format, to_format, out_content, out_length, doc,
                                 build)} :
    /\ doc.next <= MaxAllocs
    /\ ReturnFfi(r, "str")
    /\ out' = FfiCall("convert",
                      content.ptr = "null" \/ out_content = Null \/ out_length = Null,
                      content, from_format, to_format, r)
    /\ UNCHANGED regVars

\* The caller frees a handle it holds, or null.
CallFreeDocument(handle) ==
    LET heap == formatrix_free_document(handle, doc) IN
    /\ doc' = heap
    /\ src' = src \ {[id |-> handle, kind |-> "doc"]}
    /\ out' = FfiCall("free_document", handle = Null, NullContent, "none", "none",
                      Returned("none", heap))
    /\ UNCHANGED regVars

\* The caller frees a string it holds, or null.
CallFreeString(str) ==
    LET heap == formatrix_free_string(str, doc) IN
    /\ doc' = heap
    /\ src' = src \ {[id |-> str, kind |-> "str"]}
    /\ out' = FfiCall("free_string", str = Null, NullContent, "none", "none",
                      Returned("none", heap))
    /\ UNCHANGED regVars

NextFfi ==
    \/ \E content \in FfiContents, format \in FfiFormats, out_handle \in OutPointers :
          CallParse(content, format, out_handle)
    \/ \E handle \in Held("doc"), format \in FfiFormats, out_content \in OutPointers,
          out_length \in OutPointers, build \in Builds :
          CallRender(handle, format, out_content, out_length, build)
    \/ \E handle \in Held("doc"), out_title \in OutPointers, out_length \in OutPointers :
          CallGetTitle(handle, out_title, out_length)
    \/ \E handle \in Held("doc") : CallBlockCount(handle)
    \/ \E handle \in Held("doc") : CallGetFormat(handle)
    \/ \E content \in FfiContents, from_format \in FfiFormats, to_format \in FfiFormats,
          out_content \in OutPointers, out_length \in OutPointers, build \in Builds :
          CallFfiConvert(content, from_format, to_format, out_content, out_length, build)
    \/ \E handle \in Held("doc") : CallFreeDocument(handle)
    \/ \E str \in Held("str") : CallFreeString(str)

SpecFfi == InitFfi /\ [][NextFfi]_vars

\* The functions that return an FfiResult
CodeFunctions == {"parse", "render", "get_title", "convert"}

C20_AllocationsPaired ==
    /\ ~doc.badFree
    /\ {[id |-> o.id, kind |-> o.kind] : o \in doc.live} = src
    /\ out.fn \in CodeFunctions => (out.wrote <=> out.code = "Success")
    /\ out.fn \in {"parse", "render", "get_title"}
          => out.allocs = (IF out.code = "Success" THEN 1 ELSE 0)
    /\ out.fn = "convert"
          => /\ out.code = "Success" => out.allocs = 2
             /\ out.code \in {"NullPointer", "Utf8Error", "ParseError"} => out.allocs = 0
             /\ out.from = "AsciiDoc" => out.allocs = 0
             /\ out.allocs \in 0..2
    /\ (out.fn \in {"free_document", "free_string"} /\ out.anyNull) => out.same

\* After a parse, a render or a convert, and the frees of what they returned,
\* nothing is allocated.
C20_Witness ==
    /\ doc.next > MaxAllocs
    /\ doc.live = {} /\ src = {}
    /\ out.fn \in {"free_document", "free_string"} /\ ~out.anyNull
    /\ ~doc.badFree

(***************************************************************************)
(* formatrix-db/src/lib.rs: the document store.  The database holds the    *)
(* collections documents, links and tags; a request to the server either   *)
(* is carried out or fails and changes nothing.                            *)
(***************************************************************************)
MaxKeys == 2
MaxSaves == 3
MaxLinks == 2
TagNames == {"a", "b"}
\* The tags of a StoredDocument: a Vec<String>
TagLists == {<<>>, <<"a">>, <<"b">>, <<"a", "b">>}
DocKeys == 1..MaxKeys

EmptyDb == [documents |-> {}, links |-> {}, tags |-> {}, saves |-> 0]
\* The keys of the stored documents and of the stored links
StoredKeys(db) == {d.key : d \in db.documents}
LinkKeys(db) == {l.key : l \in db.links}
\* The _key the server gives to a new document
FreshKey(used) ==
    CHOOSE k \in 1..(Cardinality(used) + 1) : k \notin used /\ \A j \in 1..(k - 1) : j \in used

\* The UPSERT of update_tag_count: INSERT count 1, or UPDATE count + 1
update_tag_count(tags, tag_name) ==
    IF \E t \in tags : t.name = tag_name
    THEN {IF t.name = tag_name THEN [t EXCEPT !.count = @ + 1] ELSE t : t \in tags}
    ELSE tags \cup {[name |-> tag_name, count |-> 1]}

RECURSIVE UpdateTagCounts(_, _)
UpdateTagCounts(tags, names) ==
    IF names = <<>> THEN tags
    ELSE UpdateTagCounts(update_tag_count(tags, Head(names)), Tail(names))

\* save_document; key is doc.key, tags is doc.tags, answered is the number of
\* update_tag_count requests that the server answers before one fails
save_document(db, key, tags, answered) ==
    IF key # None /\ Unwrap(key) \notin StoredKeys(db)
    THEN [ok |-> FALSE, key |-> 0, db |-> db]
    ELSE LET k == IF key # None THEN Unwrap(key) ELSE FreshKey(StoredKeys(db))
             stored == {d \in db.documents : d.key # k} \cup {[key |-> k, tags |-> tags]}
         IN [ok |-> answered = Len(tags), key |-> IF answered = Len(tags) THEN k ELSE 0,
             db |-> [db EXCEPT !.documents = stored,
                               !.tags = UpdateTagCounts(@, SubSeq(tags, 1, answered))]]

\* delete_document; links_answered is whether the server carries out the
\* query that removes the links
delete_document(db, key, links_answered) ==
    IF key \notin StoredKeys(db)
    THEN [ok |-> FALSE, key |-> key, db |-> db]
    ELSE [ok |-> TRUE, key |-> key,
          db |-> [db EXCEPT
                    !.documents = {d \in @ : d.key # key},
                    !.links = IF links_answered
                              THEN {l \in @ : l.from # key /\ l.to # key}
                              ELSE @]]

\* add_link: an edge from documents/{from} to documents/{to}
add_link(db, from, to) ==
    [ok |-> TRUE, key |-> FreshKey(LinkKeys(db)),
     db |-> [db EXCEPT !.links = @ \cup {[key |-> FreshKey(LinkKeys(db)), from |-> from,
                                          to |-> to]}]]

NoDbCall == [fn |-> "none", ok |-> FALSE, key |-> 0]

InitDb ==
    /\ handlers = {}
    /\ call = NoCall
    /\ calls = <<>>
    /\ result = Ok(NoText)
    /\ src = {}
    /\ doc = EmptyDb
    /\ out = NoDbCall

SaveDocument(key, tags, answered) ==
    \E r \in {save_document(doc, key, tags, answered)} :
    /\ doc.saves < MaxSaves
    /\ key = None => Cardinality(StoredKeys(doc)) < MaxKeys
    /\ doc' = [r.db EXCEPT !.saves = @ + 1]
    /\ out' = [fn |-> "save_document", ok |-> r.ok, key |-> r.key]
    /\ UNCHANGED <<regVars, src>>

DeleteDocument(key, links_answered) ==
    \E r \in {delete_document(doc, key, links_answered)} :
    /\ doc' = r.db
    /\ out' = [fn |-> "delete_document", ok |-> r.ok, key |-> r.key]
    /\ UNCHANGED <<regVars, src>>

AddLink(from, to) ==
    \E r \in {add_link(doc, from, to)} :
    /\ Cardinality(doc.links) < MaxLinks
    /\ doc' = r.db
    /\ out' = [fn |-> "add_link", ok |-> r.ok, key |-> r.key]
    /\ UNCHANGED <<regVars, src>>

NextDb ==
    \/ \E key \in {None} \cup {Some(k) : k \in DocKeys}, tags \in TagLists :
          \E answered \in 0..Len(tags) : SaveDocument(key, tags, answered)
    \/ \E key \in DocKeys, links_answered \in BOOLEAN : DeleteDocument(key, links_answered)
    \/ \E from \in DocKeys, to \in DocKeys : AddLink(from, to)

SpecDb == InitDb /\ [][NextDb]_vars

\* The count that the tags collection holds for a tag (0 when it has no entry)
TagCount(tag) ==
    IF \E t \in doc.tags : t.name = tag
    THEN (CHOOSE t \in doc.tags : t.name = tag).count ELSE 0
\* The stored documents whose tags contain a tag
DocumentsUsing(tag) == {d \in doc.documents : InRange(d.tags, tag)}

\* C21: after any sequence of save_document and delete_document calls, the
\* count of every Tag is the number of stored documents whose tags contain
\* the tag.
C21_TagCountIsUsage ==
    \A tag \in TagNames : TagCount(tag) = Cardinality(DocumentsUsing(tag))

\* A tag is counted once although the only document that had it was deleted.
C21_Divergence ==
    /\ out.fn = "delete_document" /\ out.ok
    /\ doc.documents = {}
    /\ TagCount("a") = 1

\* C22: whenever delete_document(key) returns Ok, the document is removed and
\* no link from or to documents/{key} remains in the links collection.
C22_DeleteRemovesLinks ==
    (out.fn = "delete_document" /\ out.ok)
        => /\ out.key \notin StoredKeys(doc)
           /\ \A l \in doc.links : l.from # out.key /\ l.to # out.key

\* delete_document returned Ok and a link to the deleted document remains.
C22_Divergence ==
    /\ out.fn = "delete_document" /\ out.ok
    /\ out.key \notin StoredKeys(doc)
    /\ \E l \in doc.links : l.to = out.key

(***************************************************************************)
(* The Djot event fold, one event at a time: parse_events runs over the    *)
(* events of a source; doc is the state of the loop (blocks and stack),    *)
(* out remembers the event just handled and the state before it.           *)
(***************************************************************************)
MaxFold == 2
\* The sources whose events are folded: MaxFold constructs or fewer
DjSrcPartlyStrong ==
    Inner("Paragraph", <<Leaf("Str", <<"a ">>), Inner("Strong", <<Leaf("Str", <<"b">>)>>)>>)
FoldConstructs ==
    {DjSrcHeading(2), DjSrcParagraph("intro"), DjSrcEmphasized, DjSrcPartlyStrong,
     DjSrcEmptyQuote,
     Leaf("ThematicBreak", <<>>), DjSrcList("Unordered", <<DjSrcItem("a"), DjSrcEmptyItem>>)}
FoldSources == UNION {[1..n -> FoldConstructs] : n \in 1..MaxFold}
EventsOfSource(nodes) == DjEventsOf(DjotTree(nodes).children)
NoEvent == [done |-> FALSE, ev |-> [ev |-> "none"], before |-> [blocks |-> <<>>, stack |-> <<>>]]

InitFold ==
    /\ handlers = {}
    /\ call = NoCall
    /\ calls = <<>>
    /\ result = Ok(NoText)
    /\ src \in {[events |-> EventsOfSource(nodes), pos |-> 0] : nodes \in FoldSources}
    /\ doc = [blocks |-> <<>>, stack |-> <<>>]
    /\ out = NoEvent

\* One iteration of `for event in parser`
FoldEvent ==
    /\ src.pos < Len(src.events)
    /\ src' = [src EXCEPT !.pos = @ + 1]
    /\ doc' = DjStep(doc, src.events[src.pos + 1])
    /\ out' = [done |-> TRUE, ev |-> src.events[src.pos + 1], before |-> doc]
    /\ UNCHANGED regVars

\* parse_events returns; the next call folds the events of another source.
FoldReturns(nodes) ==
    /\ src.pos = Len(src.events)
    /\ src' = [events |-> EventsOfSource(nodes), pos |-> 0]
    /\ doc' = [blocks |-> <<>>, stack |-> <<>>]
    /\ out' = NoEvent
    /\ UNCHANGED regVars

NextFold ==
    \/ FoldEvent
    \/ \E nodes \in FoldSources : FoldReturns(nodes)

SpecFold == InitFold /\ [][NextFold]_vars

\* The number of events of a kind among the events handled so far
Handled(kind) == Cardinality({i \in 1..src.pos : src.events[i].ev = kind})

\* C23: in the Djot event fold of a well-nested stream, each End pops the
\* frame pushed by its matching Start (the open frames are the Starts without
\* an End so far, and the popped frame holds the container of the End); what
\* the End yields (the Block built from the popped frame, or the child blocks
\* of a Section, in order) is appended to the block list of the enclosing
\* frame, or to the document exactly when the stack is empty after the pop;
\* and the stack is empty when the stream ends.
C23_FoldIsWellNested ==
    /\ Len(doc.stack) = Handled("Start") - Handled("End")
    /\ src.pos = Len(src.events) => doc.stack = <<>>
    /\ (out.done /\ out.ev.ev = "End") =>
          LET before == out.before
              n == Len(before.stack)
              top == before.stack[n]
              block == container_to_block(out.ev.c, top.blocks, top.inlines)
              yield == IF out.ev.c.kind = "Section" THEN top.blocks
                       ELSE IF IsSome(block) THEN <<Unwrap(block)>> ELSE <<>>
          IN /\ n >= 1
             /\ top.container = out.ev.c
             /\ Len(doc.stack) = n - 1
             /\ IF n = 1
                THEN doc.blocks = before.blocks \o yield
                ELSE /\ doc.blocks = before.blocks
                     /\ doc.stack[n - 1] = [before.stack[n - 1] EXCEPT !.blocks = @ \o yield]
             /\ \A i \in 1..(n - 2) : doc.stack[i] = before.stack[i]

\* The End of a list item gave its paragraph to the frame of the list, inside
\* a section.
C23_Witness ==
    /\ out.done /\ out.ev.ev = "End" /\ out.ev.c.kind = "ListItem"
    /\ Len(doc.stack) = 2
    /\ doc.stack[1].container.kind = "Section"
    /\ doc.stack[2].container.kind = "List"
    /\ Len(doc.stack[2].blocks) = 1
    /\ doc.blocks = <<>>

\* The texts of the Inline::Text of some inlines and of the inlines they
\* hold, in order
RECURSIVE TextsOf(_)
TextsOf(inlines) ==
    IF inlines = <<>> THEN <<>>
    ELSE (IF Head(inlines).t = "Text" THEN <<Head(inlines).text>>
          ELSE TextsOf(Head(inlines).content))
         \o TextsOf(Tail(inlines))
\* The place of the Start that the End just handled matches
MatchingStart ==
    CHOOSE i \in 1..src.pos :
        /\ src.events[i].ev = "Start" /\ src.events[i].c = out.ev.c
        /\ \A j \in (i + 1)..(src.pos - 1) :
              ~(src.events[j].ev = "Start" /\ src.events[j].c = out.ev.c)
\* The texts of the Str events between two places of the stream
StrsBetween(i, j) ==
    LET strs == SelectSeq([k \in 1..(j - i - 1) |-> src.events[i + k]],
                          LAMBDA e : e.ev = "Str")
    IN [k \in 1..Len(strs) |-> strs[k].c.text]
\* The block that the End just handled gave to the enclosing frame or to the
\* document
LastBlock ==
    LET blocks == IF doc.stack = <<>> THEN doc.blocks ELSE doc.stack[Len(doc.stack)].blocks
    IN blocks[Len(blocks)]

\* C24: in the Djot event fold, every Str event between Start(Paragraph) and
\* its End, also inside Emphasis, Strong or Link, appears as Text in the
\* inline content of the resulting Paragraph, in event order.
C24_ParagraphKeepsText ==
    (out.done /\ out.ev.ev = "End" /\ out.ev.c.kind = "Paragraph")
        => /\ LastBlock.t = "Paragraph"
           /\ TextsOf(LastBlock.content) = StrsBetween(MatchingStart, src.pos)

\* The paragraph "a *b*" was folded to a Paragraph that holds "a " only.
C24_Divergence ==
    /\ out.done /\ out.ev.ev = "End" /\ out.ev.c.kind = "Paragraph"
    /\ StrsBetween(MatchingStart, src.pos) = <<(<<"a ">>), (<<"b">>)>>
    /\ LastBlock = Paragraph(<<Text(<<"a ">>)>>)

(***************************************************************************)
(* formats/orgmode.rs: one Org paragraph.  The caller has taken            *)
(* Start(Paragraph); collect_paragraph_content takes the events of the     *)
(* elements of the paragraph up to End(Paragraph).  orgize reports an      *)
(* element without children either as a Start alone or as a Start and the  *)
(* End that matches it: the arms of the collectors take both events.       *)
(***************************************************************************)
MaxLeaves == 3
OrgLeafKinds == {"Text", "Code", "Verbatim"}
ParagraphElements ==
    {Leaf("Text", <<"a">>), Leaf("Code", <<"c">>), Leaf("Verbatim", <<"v">>),
     Inner("Bold", <<Leaf("Text", <<"b">>)>>)}
\* The events of the elements of a paragraph; paired is whether an element
\* without children is reported as Start and End
RECURSIVE OrgElementEvents(_, _)
OrgElementEvents(nodes, paired) ==
    IF nodes = <<>> THEN <<>>
    ELSE LET node == Head(nodes)
             start == [ev |-> "Start", c |-> [node EXCEPT !.children = <<>>]]
             end == [ev |-> "End", c |-> [node EXCEPT !.children = <<>>]]
         IN (IF node.kind \in OrgLeafKinds /\ ~paired THEN <<start>>
             ELSE <<start>> \o OrgElementEvents(node.children, paired) \o <<end>>)
            \o OrgElementEvents(Tail(nodes), paired)
OrgParagraphEvents(nodes, paired) ==
    OrgElementEvents(nodes, paired) \o <<[ev |-> "End", c |-> Inner("Paragraph", <<>>)]>>

NotCollected == [parsed |-> FALSE, content |-> <<>>]

InitOrgParagraph ==
    /\ handlers = {}
    /\ call = NoCall
    /\ calls = <<>>
    /\ result = Ok(NoText)
    /\ src \in {[nodes |-> <<>>, paired |-> paired] : paired \in BOOLEAN}
    /\ doc = NotCollected
    /\ out = NoOutput

\* One more element is written to the paragraph.
AppendElement(n) ==
    /\ ~doc.parsed
    /\ Len(src.nodes) < MaxLeaves
    /\ src' = [src EXCEPT !.nodes = Append(@, n)]
    /\ UNCHANGED <<regVars, doc, out>>

\* collect_paragraph_content(&mut inlines, &mut events) with inlines empty
CollectParagraph ==
    /\ ~doc.parsed
    /\ doc' = [parsed |-> TRUE,
               content |-> collect_paragraph_content(
                               OrgParagraphEvents(src.nodes, src.paired), <<>>).val]
    /\ UNCHANGED <<regVars, src, out>>

\* The next paragraph of the source
NextParagraph(paired) ==
    /\ doc.parsed
    /\ src' = [nodes |-> <<>>, paired |-> paired]
    /\ doc' = NotCollected
    /\ UNCHANGED <<regVars, out>>

NextOrgParagraph ==
    \/ \E n \in ParagraphElements : AppendElement(n)
    \/ CollectParagraph
    \/ \E paired \in BOOLEAN : NextParagraph(paired)

SpecOrgParagraph == InitOrgParagraph /\ [][NextOrgParagraph]_vars

\* The inline that an element of a paragraph stands for
RECURSIVE InlineOfElement(_)
InlineOfElement(node) ==
    CASE node.kind = "Text" -> Text(node.text)
      [] node.kind \in {"Code", "Verbatim"} -> Code(node.text)
      [] node.kind = "Bold" ->
            Strong([i \in 1..Len(node.children) |-> InlineOfElement(node.children[i])])

\* C25: in Org-mode paragraph parsing, each Text, Code or Verbatim element
\* of the paragraph (directly in it or in a Bold of it) contributes exactly
\* one inline, also when the event source reports an element without
\* children as a Start followed by the matching End.
C25_OneInlinePerLeaf ==
    doc.parsed =>
        doc.content = [i \in 1..Len(src.nodes) |-> InlineOfElement(src.nodes[i])]

\* The paragraph of the one Text "a", reported as Start and End, was
\* collected as two Text inlines.
C25_Divergence ==
    /\ doc.parsed
    /\ src.paired
    /\ src.nodes = <<Leaf("Text", <<"a">>)>>
    /\ doc.content = <<Text(<<"a">>), Text(<<"a">>)>>

(***************************************************************************)
(* formats/djot.rs: an admonition through the Djot renderer and back.      *)
(* render_block writes "::: name", the child blocks and ":::"; jotdown     *)
(* reads that as Container::Div { class: name } around the events of the   *)
(* children, and parse_events folds the events.                            *)
(***************************************************************************)
MaxQuoted == 2
\* What the quote holds, as the sources of its child blocks
QuotedConstructs ==
    {DjSrcParagraph("intro"), DjSrcParagraph("more"), Leaf("ThematicBreak", <<>>)}
QuotedSources == UNION {[1..n -> QuotedConstructs] : n \in 0..MaxQuoted}
QuotedBlocks(nodes) == parse_events(DjEventsOf(nodes))
\* The class that follows "::: " on the first line of a rendered admonition
DivClass(text) == text[2]
\* The div that jotdown reads from the rendered admonition
RenderedDiv(text, nodes) == [Inner("Div", nodes) EXCEPT !.attr = DivClass(text)]

NoQuote == [rendered |-> FALSE, text |-> <<>>]
NotFolded == [folded |-> FALSE, blocks |-> <<>>]

InitAdmonition ==
    /\ handlers = {}
    /\ call = NoCall
    /\ calls = <<>>
    /\ result = Ok(NoText)
    /\ src \in {[admonition |-> k, nodes |-> nodes] : k \in AdmonitionType, nodes \in QuotedSources}
    /\ doc = NoQuote
    /\ out = NotFolded

\* render_block of the BlockQuote with the admonition, at indent 0
RenderAdmonition(build) ==
    /\ ~doc.rendered
    /\ doc' = [rendered |-> TRUE,
               text |-> DjBlock(BlockQuote(QuotedBlocks(src.nodes), Some(src.admonition)),
                                0, build)]
    /\ UNCHANGED <<regVars, src, out>>

\* parse_events on the events of the div that was rendered
FoldDiv ==
    /\ doc.rendered
    /\ ~out.folded
    /\ out' = [folded |-> TRUE,
               blocks |-> parse_events(DjEvents(RenderedDiv(doc.text, src.nodes)))]
    /\ UNCHANGED <<regVars, src, doc>>

\* The next admonition
NextQuote(k, nodes) ==
    /\ out.folded
    /\ src' = [admonition |-> k, nodes |-> nodes]
    /\ doc' = NoQuote
    /\ out' = NotFolded
    /\ UNCHANGED regVars

NextAdmonition ==
    \/ \E build \in Builds : RenderAdmonition(build)
    \/ FoldDiv
    \/ \E k \in AdmonitionType, nodes \in QuotedSources : NextQuote(k, nodes)

SpecAdmonition == InitAdmonition /\ [][NextAdmonition]_vars

\* C26: for every AdmonitionType k, folding the div that the Djot renderer
\* emits for a BlockQuote with admonition k yields a BlockQuote with the
\* same admonition k that holds all of the original child blocks.
C26_AdmonitionRoundTrip ==
    out.folded =>
        out.blocks = <<BlockQuote(QuotedBlocks(src.nodes), Some(src.admonition))>>

\* The Danger admonition of two paragraphs came back as its first paragraph
\* alone, without a quote.
C26_Divergence ==
    /\ out.folded
    /\ src.admonition = "Danger"
    /\ DivClass(doc.text) = "danger"
    /\ Len(src.nodes) = 2
    /\ out.blocks = <<Paragraph(<<Text(<<"intro">>)>>)>>

(***************************************************************************)
(* The tree walk of the renderers of Markdown, Djot and reStructuredText:  *)
(* render calls render_block(block, 0) for a block of the document, and    *)
(* render_block calls itself for the blocks that a block holds, with the   *)
(* indent (in rst.rs: depth) that the arm of the block passes.  doc is the *)
(* stack of the calls that are running.                                    *)
(***************************************************************************)
MaxNesting == 3
WalkFormats == {"Markdown", "Djot", "ReStructuredText"}
RenderCall(block, indent) == [block |-> block, indent |-> indent]

\* markdown.rs render_block: the calls it makes for the blocks inside a block
MdRenderCalls(b, indent) ==
    CASE b.t = "BlockQuote" -> [i \in 1..Len(b.blocks) |-> RenderCall(b.blocks[i], 0)]
      [] b.t = "List" ->
            Flatten([i \in 1..Len(b.items) |->
                       [j \in 1..Len(b.items[i].content) |->
                          RenderCall(b.items[i].content[j], 0)]])
      [] b.t = "FootnoteDefinition" ->
            [i \in 1..Len(b.blocks) |-> RenderCall(b.blocks[i], indent + 1)]
      [] OTHER -> <<>>

\* djot.rs render_block
DjRenderCalls(b, indent) ==
    CASE b.t = "BlockQuote" ->
            [i \in 1..Len(b.blocks) |->
               RenderCall(b.blocks[i], IF IsSome(b.admonition) THEN indent ELSE 0)]
      [] b.t = "List" ->
            Flatten([i \in 1..Len(b.items) |->
                       [j \in 1..Len(b.items[i].content) |->
                          RenderCall(b.items[i].content[j], 0)]])
      [] b.t = "FootnoteDefinition" ->
            [i \in 1..Len(b.blocks) |-> RenderCall(b.blocks[i], indent + 2)]
      [] OTHER -> <<>>

\* rst.rs render_block
RstRenderCalls(b, depth) ==
    CASE b.t = "BlockQuote" -> [i \in 1..Len(b.blocks) |-> RenderCall(b.blocks[i], 1)]
      [] b.t = "List" ->
            Flatten([i \in 1..Len(b.items) |->
                       [j \in 1..Len(b.items[i].content) |->
                          RenderCall(b.items[i].content[j], 0)]])
      [] OTHER -> <<>>

RenderCalls(format, b, indent) ==
    CASE format = "Markdown" -> MdRenderCalls(b, indent)
      [] format = "Djot" -> DjRenderCalls(b, indent)
      [] format = "ReStructuredText" -> RstRenderCalls(b, indent)

\* The blocks of a document, nested MaxNesting deep or less
RECURSIVE WalkBlocks(_)
WalkBlocks(d) ==
    IF d = 0 THEN {Paragraph(<<Text(<<"a">>)>>)}
    ELSE LET inner == WalkBlocks(d - 1) IN
         inner
         \cup {List("Bullet", <<ListItem(<<Paragraph(<<Text(<<"a">>)>>), b>>, None)>>, None) :
                 b \in inner}
         \cup {BlockQuote(<<b>>, None) : b \in inner}
         \cup {FootnoteDefinition(<<"n">>, <<b>>) : b \in inner}

InitWalk ==
    /\ handlers = {}
    /\ call = NoCall
    /\ calls = <<>>
    /\ result = Ok(NoText)
    /\ src \in WalkFormats
    /\ doc \in {<<RenderCall(b, 0)>> : b \in WalkBlocks(MaxNesting)}
    /\ out = NoOutput

\* The running render_block calls itself for a block inside its block.
CallRenderBlock(k) ==
    LET top == doc[Len(doc)]
        inside == RenderCalls(src, top.block, top.indent)
    IN /\ k \in 1..Len(inside)
       /\ doc' = Append(doc, inside[k])
       /\ UNCHANGED <<regVars, src, out>>

\* The running render_block returns to the render_block that called it.
ReturnRenderBlock ==
    /\ Len(doc) > 1
    /\ doc' = SubSeq(doc, 1, Len(doc) - 1)
    /\ UNCHANGED <<regVars, src, out>>

\* render_block returns to render, which is called for another document.
RenderNext(format, b) ==
    /\ Len(doc) = 1
    /\ src' = format
    /\ doc' = <<RenderCall(b, 0)>>
    /\ UNCHANGED <<regVars, out>>

NextWalk ==
    \/ \E k \in 1..2 : CallRenderBlock(k)
    \/ ReturnRenderBlock
    \/ \E format \in WalkFormats, b \in WalkBlocks(MaxNesting) : RenderNext(format, b)

SpecWalk == InitWalk /\ [][NextWalk]_vars

\* C27: in each renderer, a block nested inside a list item is rendered at
\* a nesting depth or indent strictly greater than that of its parent list.
C27_NestedBlockIsDeeper ==
    \A k \in 2..Len(doc) :
        doc[k - 1].block.t = "List" => doc[k].indent > doc[k - 1].indent

\* A List inside a list item is rendered at indent 0, the indent of the List
\* that holds it.
C27_Divergence ==
    /\ Len(doc) = 2
    /\ doc[1].block.t = "List" /\ doc[1].indent = 0
    /\ doc[2].block.t = "List" /\ doc[2].indent = 0

(***************************************************************************)
(* formats/rst.rs: the Heading arm of render_block, on headings of every   *)
(* level whose content is built from plain and marked-up inlines.          *)
(***************************************************************************)
MaxInlines == 2
HeadingInlines ==
    {Text(<<"Title">>), Text(<<>>), Emphasis(<<Text(<<"hi">>)>>), Strong(<<Text(<<"b">>)>>),
     Code(<<"x">>), Link(<<"u">>, None, <<Text(<<"t">>)>>)}
HeadingContents == UNION {[1..n -> HeadingInlines] : n \in 0..MaxInlines}
AllHeadingLevels == 1..6
NotRendered == [rendered |-> FALSE, text |-> <<>>]

InitHeading ==
    /\ handlers = {}
    /\ call = NoCall
    /\ calls = <<>>
    /\ result = Ok(NoText)
    /\ src \in {Heading(level, <<>>) : level \in AllHeadingLevels}
    /\ doc = NotRendered
    /\ out = NoOutput

\* The caller appends an inline to the content of the heading.
AppendInline(x) ==
    /\ ~doc.rendered
    /\ Len(src.content) < MaxInlines
    /\ src' = [src EXCEPT !.content = Append(@, x)]
    /\ UNCHANGED <<regVars, doc, out>>

\* render_block(output, &heading, 0)
RenderHeading ==
    /\ ~doc.rendered
    /\ doc' = [rendered |-> TRUE, text |-> RstBlock(src)]
    /\ UNCHANGED <<regVars, src, out>>

\* The next heading of the document
NextHeading(level) ==
    /\ doc.rendered
    /\ src' = Heading(level, <<>>)
    /\ doc' = NotRendered
    /\ UNCHANGED <<regVars, out>>

NextHeadings ==
    \/ \E x \in HeadingInlines : AppendInline(x)
    \/ RenderHeading
    \/ \E level \in AllHeadingLevels : NextHeading(level)

SpecHeading == InitHeading /\ [][NextHeadings]_vars

\* The place of the line break between the title line and the underline
TitleBreak(text) == CHOOSE i \in 1..Len(text) : text[i] = "\n" /\ \A j \in 1..(i - 1) : text[j] # "\n"
TitleLine(text) == SubSeq(text, 1, TitleBreak(text) - 1)
UnderlineOf(text) == SubSeq(text, TitleBreak(text) + 1, Len(text))

\* C28: for every Heading and every inline content of it, the underline that
\* the RST renderer emits is at least as long as the rendered title line
\* above it, and at least 1 character long.
C28_UnderlineCoversTitle ==
    doc.rendered =>
        /\ StrLen(UnderlineOf(doc.text)) >= StrLen(TitleLine(doc.text))
        /\ StrLen(UnderlineOf(doc.text)) >= 1

\* The heading of the emphasised "hi" is the line "*hi*" of 4 characters
\* with an underline of 2.
C28_Divergence ==
    /\ doc.rendered
    /\ src.content = <<Emphasis(<<Text(<<"hi">>)>>)>>
    /\ TitleLine(doc.text) = <<"*", "hi", "*">>
    /\ StrLen(UnderlineOf(doc.text)) = 2

\* The renderers that compute the label of an ordered item in u32
U32LabelFormats == {"Djot", "OrgMode"}

\* C29: in the Djot and Org-mode renderers the label arithmetic of ordered
\* lists never overflows 32 bits: for every start s and every item index i
\* the label s + i is computed without aborting the render and without
\* wrap-around (the label written is the decimal of the sum s + i).
C29_LabelsDoNotOverflow ==
    (out.done /\ out.format \in U32LabelFormats)
        => /\ out.ok
           /\ OrderedLabels(out.text) = NumberedFromStart(doc.content)

\* An Org-mode render in a build without overflow checks labels the second
\* item of the list that starts at u32::MAX with 0.
C29_Divergence ==
    /\ out.done /\ out.ok
    /\ out.format = "OrgMode" /\ out.build = "release"
    /\ doc.content = <<List("Ordered", Items(2), Some(U32Max))>>
    /\ OrderedLabels(out.text) = << <<"4", "2", "9", "4", "9", "6", "7", "2", "9", "5">>, <<"0">> >>

(***************************************************************************)
(* formatrix-gui/src/commands.rs: the ids of DocumentEvent.  EventThreads of    *)
(* the process call the constructors created, modified, deleted and        *)
(* converted; each calls generate_id, which takes a count from the static  *)
(* COUNTER with one atomic fetch_add, then reads the clock and formats     *)
(* "fd-{ts}-{count}".  doc holds COUNTER and the events built so far, out  *)
(* the place of every thread.                                              *)
(***************************************************************************)
MaxThreads == 2
MaxEvents == 3
EventThreads == 1..MaxThreads
EventKinds == {"Created", "Modified", "Deleted", "Converted"}
\* current_timestamp() as u64: the seconds the system clock shows, which
\* need not differ or grow between two calls
ClockSeconds == {1, 11}

\* An increment that is lost: the counter keeps its value.
fetch_add_lost(counter) == [val |-> counter, counter |-> counter]
\* AtomicU64::fetch_add(1, Ordering::Relaxed): one atomic read-modify-write
\* that returns the value before it
fetch_add(counter) == [val |-> counter, counter |-> counter + 1]

\* format!("fd-{}-{}", ts, count)
generate_id(ts, count) == <<"fd-">> \o DecimalUsize(ts) \o <<"-">> \o DecimalUsize(count)

NotConstructing == [pc |-> "idle", kind |-> "none", count |-> 0]

InitEvents ==
    /\ handlers = {}
    /\ call = NoCall
    /\ calls = <<>>
    /\ result = Ok(NoText)
    /\ src = {}
    /\ doc = [counter |-> 0, events |-> <<>>]
    /\ out = [t \in EventThreads |-> NotConstructing]

\* The calls of generate_id that have begun
Begun == Len(doc.events) + Cardinality({t \in EventThreads : out[t].pc # "idle"})

\* A thread in a constructor, at its call of Self::generate_id()
Constructing(kind) == [pc |-> "fetch_add", kind |-> kind, count |-> 0]

\* DocumentEvent::created, modified, deleted, converted: a thread calls the
\* constructor, which calls Self::generate_id().
Created(t) ==
    /\ out[t].pc = "idle"
    /\ Begun < MaxEvents
    /\ out' = [out EXCEPT ![t] = Constructing("Created")]
    /\ UNCHANGED <<regVars, src, doc>>
Modified(t) ==
    /\ out[t].pc = "idle"
    /\ Begun < MaxEvents
    /\ out' = [out EXCEPT ![t] = Constructing("Modified")]
    /\ UNCHANGED <<regVars, src, doc>>
Deleted(t) ==
    /\ out[t].pc = "idle"
    /\ Begun < MaxEvents
    /\ out' = [out EXCEPT ![t] = Constructing("Deleted")]
    /\ UNCHANGED <<regVars, src, doc>>
Converted(t) ==
    /\ out[t].pc = "idle"
    /\ Begun < MaxEvents
    /\ out' = [out EXCEPT ![t] = Constructing("Converted")]
    /\ UNCHANGED <<regVars, src, doc>>

\* let count = COUNTER.fetch_add(1, Ordering::Relaxed);
FetchAdd(t) ==
    \E r \in {fetch_add(doc.counter)} :
    /\ out[t].pc = "fetch_add"
    /\ doc' = [doc EXCEPT !.counter = r.counter]
    /\ out' = [out EXCEPT ![t].pc = "timestamp", ![t].count = r.val]
    /\ UNCHANGED <<regVars, src>>

\* let ts = current_timestamp() as u64; the id is formatted and the
\* constructor returns the event.
ReturnEvent(t, ts) ==
    /\ out[t].pc = "timestamp"
    /\ doc' = [doc EXCEPT !.events = Append(@, [kind |-> out[t].kind,
                                                id |-> generate_id(ts, out[t].count)])]
    /\ out' = [out EXCEPT ![t] = NotConstructing]
    /\ UNCHANGED <<regVars, src>>

NextEvents ==
    \/ \E t \in EventThreads : Created(t)
    \/ \E t \in EventThreads : Modified(t)
    \/ \E t \in EventThreads : Deleted(t)
    \/ \E t \in EventThreads : Converted(t)
    \/ \E t \in EventThreads : FetchAdd(t)
    \/ \E t \in EventThreads, ts \in ClockSeconds : ReturnEvent(t, ts)

SpecEvents == InitEvents /\ [][NextEvents]_vars

\* The threads that hold a count and have not built their event yet
Counting == {t \in EventThreads : out[t].pc = "timestamp"}

\* C30: any two DocumentEvent values built by created, modified, deleted or
\* converted carry distinct ids, also when the constructors run at the same
\* time on several threads: COUNTER hands out every value at most once.
C30_EventIdsDistinct ==
    /\ \A i, j \in 1..Len(doc.events) : i # j => doc.events[i].id # doc.events[j].id
    /\ \A t, u \in Counting : t # u => out[t].count # out[u].count
    /\ \A t \in Counting : out[t].count < doc.counter

\* Two constructors run at the same time, each with a count of its own,
\* after an event was built.
C30_Witness ==
    /\ Len(doc.events) = 1
    /\ Counting = {1, 2}
    /\ out[1].kind = "Converted" /\ out[2].kind = "Created"
    /\ out[1].count # out[2].count

====
